---- MODULE Spec2Model ----
(***************************************************************************)
(* A model of tidal-dl-mcp: the backend's session cache and auth gating    *)
(* (src/tidal_api/app.py), its batch search and batch recommendations      *)
(* fan-out, and the tool-server's process supervisor                       *)
(* (src/mcp_server/utils.py).                                              *)
(***************************************************************************)
EXTENDS Integers, Sequences, FiniteSets, TLC

(***************************************************************************)
(* Bounds of the model.                                                    *)
(***************************************************************************)
\* clock advances per behaviour
MaxTicks == 2
\* BrowserSession objects constructed per behaviour
MaxSessions == 2
\* wall-clock reading when the backend starts
StartTime == 1000
\* items in one batch-search request
MaxQueries == 3
\* seeds in one batch-recommendations request
MaxSeeds == 2
\* calls of shutdown_flask_app() per behaviour
MaxShutdownCalls == 2
\* how far below 1 and above the largest cap (500) a 'limit' parameter ranges
LimitMargin == 3

(***************************************************************************)
(* Program constants.                                                      *)
(***************************************************************************)
SESSION_CACHE_TTL == 300

\* Python's None / "no session"
None == 0

\* request-handling threads of the Flask backend (app.run(threaded=True))
Threads == {1, 2}

\* the threads that serve whole routes. Routes touch the shared state only
\* in get_or_create_session(), which runs under the lock, and in login's
\* write of the credential file, so one thread serving routes back to back
\* produces every sequence of cache updates that several would; the
\* interleavings of the lock are SpecCache's.
RouteThreads == {1}

VARIABLES
    \* ---- backend: session cache (module globals of app.py)
    cached_session,           \* _cached_session: None or a BrowserSession object
    session_last_validated,   \* _session_last_validated
    session_lock,             \* _session_lock: None when free, else the holder
    \* ---- backend: environment
    clock,                    \* time.time()
    ticks,                    \* number of clock advances so far
    cred,                     \* the credential file SESSION_FILE
    next_session,             \* identity of the next BrowserSession() object
    \* ---- backend: request threads
    pc,                       \* where each thread is
    op,                       \* the route (or function) each thread is serving
    call,                     \* what the thread's get_or_create_session() call did
    resp,                     \* the response the route produced
    \* ---- history of the cache
    validated,                \* the last successful validation: session and time
    invalidated,              \* the session dropped by an invalidation no call followed yet
    login_found,              \* the live cache entry the last successful login found
    \* ---- batch_search(): one request's handler
    bs_pc,                    \* "validate", "loop", "done"
    bs_request,               \* request.get_json(): 'queries' and 'limit_per_query'
    bs_limit,                 \* limit_per_query after line 300
    bs_i,                     \* the index enumerate() is at (from 1)
    bs_results,               \* results
    bs_outcomes,              \* what the client's search did for each item so far
    bs_response,              \* the response returned
    \* ---- get_batch_recommendations(): one request's handler
    rec_pc,                   \* "validate", "pool", "done"
    rec_request,              \* request.get_json(): 'track_ids', 'remove_duplicates'
    rec_future,               \* the future of each seed's worker, in submit order
    rec_merged,               \* the workers as_completed has yielded, in order
    all_recommendations,      \* all_recommendations
    seen_track_ids,           \* seen_track_ids
    rec_response,             \* the response returned
    \* ---- tool-server: the process supervisor (mcp_server/utils.py)
    sup_pc,                   \* where start_flask_app() is
    child,                    \* the backend child process: "none", "running", "exited"
    child_code,               \* the exit status of an exited child
    returncode,               \* flask_process.returncode, set when poll() sees the exit
    listening,                \* the child accepts connections on FLASK_PORT
    foreign,                  \* another process accepts connections on FLASK_PORT
    elapsed,                  \* time.time() - start_time, in half seconds
    loop_time,                \* the reading of the last "while" test
    flask_ready,              \* flask_ready
    sup_error,                \* the RuntimeError start_flask_app() raised
    signals,                  \* the signals sent to the child
    \* ---- history of the supervisor
    accepted,                 \* a probe's connection was accepted
    exit_at,                  \* the reading at which the child exited
    exit_unaccepted,          \* the child exited during start, before the port accepted
    checks_after_exit,        \* liveness checks made since the child exited
    \* ---- tool-server: the process around the supervisor (mcp_server/server.py)
    ts_pc,                    \* "import", "serving", "exit_hooks", "gone"
    hook_registered,          \* atexit.register(shutdown_flask_app) has run
    startup_exception,        \* start_flask_app()'s error left the module's top level
    \* ---- tool-server: shutdown_flask_app()
    sd_pc,                    \* "idle", "terminate", "wait", "kill", "done"
    sd_calls,                 \* calls of shutdown_flask_app() entered so far
    sd_sent,                  \* per call: whether flask_process was set, the signals sent
    \* ---- backend: the 'limit' and 'offset' parameters of one request
    bl_pc,                    \* "idle", "args", "done"
    bl_request,               \* the route and its query parameters
    bl_limit,                 \* limit, as the handler passes it on
    bl_offset,                \* offset, as get_playlist_tracks passes it on
    \* ---- tool-server: one tool call (mcp_server/server.py)
    tc_pc,                    \* "idle", "rpc", "done"
    tc_call,                  \* the tool and the arguments that decide its requests
    tc_queries,               \* batch_search_tidal's 'queries' list, item by item
    tc_step,                  \* the index of the next request in the tool's plan
    tc_trace,                 \* what each request sent so far met
    tc_result                 \* what the tool returned (or that it raised)

cacheVars == <<cached_session, session_last_validated, session_lock>>
envVars == <<clock, ticks, cred, next_session>>
threadVars == <<pc, op, call, resp>>
histVars == <<validated, invalidated, login_found>>
backendVars == <<cacheVars, envVars, threadVars, histVars>>

batchVars == <<bs_pc, bs_request, bs_limit, bs_i, bs_results, bs_outcomes,
               bs_response>>

recVars == <<rec_pc, rec_request, rec_future, rec_merged, all_recommendations,
             seen_track_ids, rec_response>>

supVars == <<sup_pc, child, child_code, returncode, listening, foreign, elapsed,
             loop_time, flask_ready, sup_error, signals, accepted, exit_at,
             exit_unaccepted, checks_after_exit>>

lifeVars == <<ts_pc, hook_registered, startup_exception>>

stopVars == <<sd_pc, sd_calls, sd_sent>>

boundVars == <<bl_pc, bl_request, bl_limit, bl_offset>>

\* the state of the backend's handlers
handlerVars == <<batchVars, recVars, boundVars>>

toolVars == <<tc_pc, tc_call, tc_queries, tc_step, tc_trace, tc_result>>

\* the state of the tool-server process outside the supervisor
serverVars == <<lifeVars, stopVars, toolVars>>

vars == <<backendVars, handlerVars, supVars, serverVars>>

\* what a step of the backend's session handling leaves alone
notBackend == <<handlerVars, supVars, serverVars>>
\* what a step of batch_search() leaves alone
notBatch == <<backendVars, recVars, boundVars, supVars, serverVars>>
\* what a step of get_batch_recommendations() leaves alone
notRec == <<backendVars, batchVars, boundVars, supVars, serverVars>>
\* what a step of the supervisor or of the child leaves alone
notSup == <<backendVars, handlerVars, serverVars>>
\* the backend's state, which no step of the tool-server process touches
notToolServer == <<backendVars, handlerVars, toolVars>>

(***************************************************************************)
(* The credential file and the opaque client's validation of it.           *)
(***************************************************************************)
\* SESSION_FILE: absent, holding valid credentials, holding credentials
\* the service rejects, or unparsable (a writer is mid-update)
CredStates == {"missing", "valid", "rejected", "corrupt"}

\* SESSION_FILE.exists()
FileExists(c) == c # "missing"

\* BrowserSession().login_session_file_auto(SESSION_FILE) called on an
\* existing file: True, False, or an exception
login_session_file_auto(c) ==
    CASE c = "valid" -> "true"
      [] c = "rejected" -> "false"
      [] OTHER -> "raise"

(***************************************************************************)
(* get_or_create_session(): the body run under _session_lock.              *)
(* The result records the new cache entry, the returned value, whether     *)
(* the call was a cache hit, whether the validation hook was called, and   *)
(* whether an exception left the function.                                 *)
(***************************************************************************)
\* mutant: the TTL comparison off by one
CacheHit_Inclusive(cs, lv, now) == cs # None /\ (now - lv) <= SESSION_CACHE_TTL

\* mutant: the cache is never looked at
CacheHit_Never(cs, lv, now) == FALSE

CacheHit(cs, lv, now) == cs # None /\ (now - lv) < SESSION_CACHE_TTL

\* mutant: no try/except around the construction and validation
get_or_create_session_NoExcept(cs, lv, now, c, fresh) ==
    IF CacheHit(cs, lv, now)
    THEN [cached |-> cs, last |-> lv, ret |-> cs,
          hit |-> TRUE, validation |-> FALSE, raised |-> FALSE]
    ELSE IF ~FileExists(c)
    THEN [cached |-> None, last |-> lv, ret |-> None,
          hit |-> FALSE, validation |-> FALSE, raised |-> FALSE]
    ELSE IF login_session_file_auto(c) = "true"
    THEN [cached |-> fresh, last |-> now, ret |-> fresh,
          hit |-> FALSE, validation |-> TRUE, raised |-> FALSE]
    ELSE IF login_session_file_auto(c) = "raise"
    THEN [cached |-> cs, last |-> lv, ret |-> None,
          hit |-> FALSE, validation |-> TRUE, raised |-> TRUE]
    ELSE [cached |-> None, last |-> lv, ret |-> None,
          hit |-> FALSE, validation |-> TRUE, raised |-> FALSE]

\* mutant: the cached session is never reused
get_or_create_session_NoCache(cs, lv, now, c, fresh) ==
    IF ~FileExists(c)
    THEN [cached |-> None, last |-> lv, ret |-> None,
          hit |-> FALSE, validation |-> FALSE, raised |-> FALSE]
    ELSE IF login_session_file_auto(c) = "true"
    THEN [cached |-> fresh, last |-> now, ret |-> fresh,
          hit |-> FALSE, validation |-> TRUE, raised |-> FALSE]
    ELSE [cached |-> None, last |-> lv, ret |-> None,
          hit |-> FALSE, validation |-> TRUE, raised |-> FALSE]

\* mutant: a failed load is remembered for the TTL as a success is
get_or_create_session_NegativeCache(cs, lv, now, c, fresh) ==
    IF CacheHit(cs, lv, now)
    THEN [cached |-> cs, last |-> lv, ret |-> cs,
          hit |-> TRUE, validation |-> FALSE, raised |-> FALSE]
    ELSE IF cs = None /\ lv # 0 /\ (now - lv) < SESSION_CACHE_TTL
    THEN [cached |-> None, last |-> lv, ret |-> None,
          hit |-> TRUE, validation |-> FALSE, raised |-> FALSE]
    ELSE IF ~FileExists(c)
    THEN [cached |-> None, last |-> now, ret |-> None,
          hit |-> FALSE, validation |-> FALSE, raised |-> FALSE]
    ELSE IF login_session_file_auto(c) = "true"
    THEN [cached |-> fresh, last |-> now, ret |-> fresh,
          hit |-> FALSE, validation |-> TRUE, raised |-> FALSE]
    ELSE [cached |-> None, last |-> now, ret |-> None,
          hit |-> FALSE, validation |-> TRUE, raised |-> FALSE]

get_or_create_session(cs, lv, now, c, fresh) ==
    IF CacheHit(cs, lv, now)
    THEN [cached |-> cs, last |-> lv, ret |-> cs,
          hit |-> TRUE, validation |-> FALSE, raised |-> FALSE]
    ELSE IF ~FileExists(c)
    THEN [cached |-> None, last |-> lv, ret |-> None,
          hit |-> FALSE, validation |-> FALSE, raised |-> FALSE]
    ELSE IF login_session_file_auto(c) = "true"
    THEN [cached |-> fresh, last |-> now, ret |-> fresh,
          hit |-> FALSE, validation |-> TRUE, raised |-> FALSE]
    ELSE \* validation returned False, or raised and the except clause caught it
         [cached |-> None, last |-> lv, ret |-> None,
          hit |-> FALSE, validation |-> TRUE, raised |-> FALSE]

\* mutant: the globals are not declared, so the assignments bind locals
invalidate_session_cache_Local(cs, lv) == [cached |-> cs, last |-> lv]

\* mutant: only the timestamp is reset
invalidate_session_cache_TimeOnly(cs, lv) == [cached |-> cs, last |-> 0]

\* invalidate_session_cache(): the body run under _session_lock
invalidate_session_cache(cs, lv) == [cached |-> None, last |-> 0]

(***************************************************************************)
(* Routes of the backend.                                                  *)
(***************************************************************************)
\* the routes defined under @requires_tidal_auth
AuthRoutes ==
    {"get_tracks", "search", "batch_search", "get_track_recommendations",
     "get_batch_recommendations", "create_playlist", "add_tracks_to_playlist",
     "get_user_playlists", "get_playlist_tracks", "delete_playlist"}

\* the undecorated routes that touch the session or the credential file
OpenRoutes == {"health_check", "login", "auth_status"}

Routes == AuthRoutes \cup OpenRoutes

\* the statuses a route's own body can answer with, once it runs
HandlerStatus(r) ==
    CASE r \in {"get_tracks", "get_user_playlists"} -> {200, 500}
      [] r \in {"search", "batch_search", "get_batch_recommendations",
                "create_playlist"} -> {200, 400, 500}
      [] r \in {"get_track_recommendations", "get_playlist_tracks",
                "delete_playlist"} -> {200, 404, 500}
      [] r = "add_tracks_to_playlist" -> {200, 400, 404, 500}
      [] OTHER -> {200}

NoResponse == [status |-> 0, body |-> "none", handler |-> FALSE, session |-> None]

\* mutant: the wrapper calls the route without testing the session
decorated_function_NoCheck(r, session) ==
    {[status |-> st, body |-> r, handler |-> TRUE, session |-> session] :
        st \in HandlerStatus(r)}

\* requires_tidal_auth.decorated_function: the responses the wrapped route
\* can give for the session get_or_create_session() returned; "handler"
\* says whether the route's body ran, "session" is kwargs['session']
decorated_function(r, session) ==
    IF session = None
    THEN {[status |-> 401, body |-> "Not authenticated",
           handler |-> FALSE, session |-> None]}
    ELSE {[status |-> st, body |-> r, handler |-> TRUE, session |-> session] :
            st \in HandlerStatus(r)}

\* auth_status(): the response for the session it was given
auth_status(session) ==
    [status |-> 200,
     body |-> IF session # None THEN "authenticated" ELSE "No valid session",
     handler |-> TRUE, session |-> session]

(***************************************************************************)
(* Initial state of the backend process.                                   *)
(***************************************************************************)
NoCall ==
    [made |-> FALSE, time |-> 0, cred |-> "missing",
     before |-> [cached |-> None, last |-> 0],
     after |-> [cached |-> None, last |-> 0],
     ret |-> None, hit |-> FALSE, validation |-> FALSE, raised |-> FALSE,
     pre |-> [session |-> None, at |-> 0],
     after_invalidate |-> FALSE, dropped |-> None]

\* the backend's session state at process start
BackendStart ==
    /\ cached_session = None
    /\ session_last_validated = 0
    /\ session_lock = None
    /\ clock = StartTime
    /\ ticks = 0
    /\ cred \in CredStates
    /\ next_session = 1
    /\ pc = [t \in Threads |-> "idle"]
    /\ op = [t \in Threads |-> "none"]
    /\ call = [t \in Threads |-> NoCall]
    /\ resp = [t \in Threads |-> NoResponse]
    /\ validated = [session |-> None, at |-> 0]
    /\ invalidated = [pending |-> FALSE, session |-> None]
    /\ login_found = None

\* no batch-search request is being handled
BatchIdle ==
    /\ bs_pc = "idle"
    /\ bs_request = [kind |-> "absent", queries |-> <<>>,
                     limit_given |-> FALSE, limit |-> 0]
    /\ bs_limit = 0
    /\ bs_i = 0
    /\ bs_results = <<>>
    /\ bs_outcomes = <<>>
    /\ bs_response = [status |-> 0, results |-> <<>>, total |-> 0]

\* no batch-recommendations request is being handled
RecIdle ==
    /\ rec_pc = "idle"
    /\ rec_request = [kind |-> "absent", track_ids |-> <<>>,
                      remove_duplicates |-> TRUE]
    /\ rec_future = <<>>
    /\ rec_merged = <<>>
    /\ all_recommendations = <<>>
    /\ seen_track_ids = {}
    /\ rec_response = [status |-> 0, recommendations |-> <<>>]

\* the tool-server before start_flask_app(): flask_process = None
SupervisorStart ==
    /\ sup_pc = "init"
    /\ child = "none"
    /\ child_code = 0
    /\ returncode = [set |-> FALSE, code |-> 0]
    /\ listening = FALSE
    /\ foreign = FALSE
    /\ elapsed = 0
    /\ loop_time = 0
    /\ flask_ready = FALSE
    /\ sup_error = [kind |-> "none", code |-> 0]
    /\ signals = <<>>
    /\ accepted = FALSE
    /\ exit_at = 0
    /\ exit_unaccepted = FALSE
    /\ checks_after_exit = 0

\* the tool-server module before its top level has run
ToolServerStart ==
    /\ ts_pc = "import"
    /\ hook_registered = FALSE
    /\ startup_exception = FALSE
    /\ sd_pc = "idle"
    /\ sd_calls = 0
    /\ sd_sent = <<>>
    /\ tc_pc = "idle"
    /\ tc_call = [tool |-> "none", explicit_ids |-> FALSE,
                  queries |-> [kind |-> "none", len |-> 0, valid |-> 0]]
    /\ tc_queries = <<>>
    /\ tc_step = 0
    /\ tc_trace = <<>>
    /\ tc_result = [status |-> "none", message |-> <<>>, raised |-> FALSE]

\* no request with a 'limit' parameter is being handled
BoundIdle ==
    /\ bl_pc = "idle"
    /\ bl_request = [route |-> "none", limit_given |-> FALSE, limit |-> 0,
                     offset |-> 0]
    /\ bl_limit = 0
    /\ bl_offset = 0

\* the handlers' state when no request is being handled
HandlersIdle == BatchIdle /\ RecIdle /\ BoundIdle

InitBackend ==
    BackendStart /\ HandlersIdle /\ SupervisorStart /\ ToolServerStart

(***************************************************************************)
(* Environment: the clock and the credential file.                         *)
(***************************************************************************)
ClockSteps == {1, SESSION_CACHE_TTL - 1}

Tick(d) ==
    /\ ticks < MaxTicks
    /\ clock' = clock + d
    /\ ticks' = ticks + 1
    /\ UNCHANGED notBackend
    /\ UNCHANGED <<cacheVars, cred, next_session, threadVars, histVars>>

\* the file is removed, rewritten or expires outside the backend
CredChange(c) ==
    /\ c # cred
    /\ cred' = c
    /\ UNCHANGED notBackend
    /\ UNCHANGED <<cacheVars, clock, ticks, next_session, threadVars, histVars>>

(***************************************************************************)
(* A request thread.                                                       *)
(***************************************************************************)
UsesSessionCache(r) == r \in AuthRoutes \/ r = "auth_status"

\* Flask dispatches a request for route r to thread t
StartRequest(t, r) ==
    /\ pc[t] = "idle"
    /\ next_session <= MaxSessions
    /\ op' = [op EXCEPT ![t] = r]
    /\ pc' = [pc EXCEPT ![t] = IF UsesSessionCache(r) THEN "lock" ELSE "route"]
    /\ call' = [call EXCEPT ![t] = NoCall]
    /\ resp' = [resp EXCEPT ![t] = NoResponse]
    /\ UNCHANGED notBackend
    /\ UNCHANGED <<cacheVars, envVars, histVars>>

\* a caller enters get_or_create_session()
StartGet(t) ==
    /\ pc[t] = "idle"
    /\ next_session <= MaxSessions
    /\ op' = [op EXCEPT ![t] = "get_or_create_session"]
    /\ pc' = [pc EXCEPT ![t] = "lock"]
    /\ call' = [call EXCEPT ![t] = NoCall]
    /\ resp' = [resp EXCEPT ![t] = NoResponse]
    /\ UNCHANGED notBackend
    /\ UNCHANGED <<cacheVars, envVars, histVars>>

\* a caller enters invalidate_session_cache()
StartInvalidate(t) ==
    /\ pc[t] = "idle"
    /\ op' = [op EXCEPT ![t] = "invalidate"]
    /\ pc' = [pc EXCEPT ![t] = "lock"]
    /\ call' = [call EXCEPT ![t] = NoCall]
    /\ resp' = [resp EXCEPT ![t] = NoResponse]
    /\ UNCHANGED notBackend
    /\ UNCHANGED <<cacheVars, envVars, histVars>>

\* mutant: the lock does not exclude
CanAcquire_Always(t) == TRUE

\* threading.Lock.acquire(): only a free lock can be taken
CanAcquire(t) == session_lock = None

\* "with _session_lock:" is entered
AcquireLock(t) ==
    /\ pc[t] = "lock"
    /\ CanAcquire(t)
    /\ session_lock' = t
    /\ pc' = [pc EXCEPT ![t] = "locked"]
    /\ UNCHANGED notBackend
    /\ UNCHANGED <<cached_session, session_last_validated, envVars, op, call,
                   resp, histVars>>

\* the body of get_or_create_session() and the release of the lock
GetOrCreateSession(t) ==
    /\ pc[t] = "locked"
    /\ op[t] # "invalidate"
    /\ LET r == get_or_create_session(cached_session, session_last_validated,
                                      clock, cred, next_session)
       IN /\ cached_session' = r.cached
          /\ session_last_validated' = r.last
          /\ next_session' = IF r.validation THEN next_session + 1 ELSE next_session
          /\ call' = [call EXCEPT ![t] =
                 [made |-> TRUE, time |-> clock, cred |-> cred,
                  before |-> [cached |-> cached_session,
                              last |-> session_last_validated],
                  after |-> [cached |-> r.cached, last |-> r.last],
                  ret |-> IF r.raised THEN None ELSE r.ret,
                  hit |-> r.hit, validation |-> r.validation, raised |-> r.raised,
                  pre |-> validated,
                  after_invalidate |-> invalidated.pending,
                  dropped |-> invalidated.session]]
          /\ validated' = IF r.validation /\ r.cached # None
                          THEN [session |-> r.cached, at |-> clock]
                          ELSE validated
          /\ invalidated' = [pending |-> FALSE, session |-> None]
          /\ pc' = [pc EXCEPT ![t] = IF r.raised THEN "raised" ELSE "session"]
    /\ session_lock' = None
    /\ UNCHANGED notBackend
    /\ UNCHANGED <<clock, ticks, cred, op, resp, login_found>>

\* the body of invalidate_session_cache() and the release of the lock
InvalidateSessionCache(t) ==
    /\ pc[t] = "locked"
    /\ op[t] = "invalidate"
    /\ LET r == invalidate_session_cache(cached_session, session_last_validated)
       IN /\ cached_session' = r.cached
          /\ session_last_validated' = r.last
    /\ invalidated' = [pending |-> TRUE, session |-> cached_session]
    /\ session_lock' = None
    /\ pc' = [pc EXCEPT ![t] = "done"]
    /\ UNCHANGED notBackend
    /\ UNCHANGED <<envVars, op, call, resp, validated, login_found>>

\* an @requires_tidal_auth route, after get_or_create_session() returned
AuthRoute(t) ==
    /\ pc[t] = "session"
    /\ op[t] \in AuthRoutes
    /\ \E rsp \in decorated_function(op[t], call[t].ret) :
          resp' = [resp EXCEPT ![t] = rsp]
    /\ pc' = [pc EXCEPT ![t] = "done"]
    /\ UNCHANGED notBackend
    /\ UNCHANGED <<cacheVars, envVars, op, call, histVars>>

\* /api/auth/status, after get_or_create_session() returned
AuthStatus(t) ==
    /\ pc[t] = "session"
    /\ op[t] = "auth_status"
    /\ resp' = [resp EXCEPT ![t] = auth_status(call[t].ret)]
    /\ pc' = [pc EXCEPT ![t] = "done"]
    /\ UNCHANGED notBackend
    /\ UNCHANGED <<cacheVars, envVars, op, call, histVars>>

\* SESSION_FILE after BrowserSession.login_session_file_auto() as login()
\* calls it: a login answered 200 has stored valid credentials in the
\* file, any other outcome leaves the file as it was
SessionFileAfterLogin(st, c) == IF st = 200 THEN "valid" ELSE c

\* mutant: a successful login drops the cache entry
Login_Invalidates(t) ==
    /\ pc[t] = "route"
    /\ op[t] = "login"
    /\ \E st \in {200, 401, 408, 500} :
          /\ st = 200 \/ login_session_file_auto(cred) # "true"
          /\ resp' = [resp EXCEPT ![t] =
                 [status |-> st, body |-> "login", handler |-> TRUE, session |-> None]]
          /\ cred' = SessionFileAfterLogin(st, cred)
          /\ cached_session' = IF st = 200 THEN None ELSE cached_session
          /\ session_last_validated' =
                 IF st = 200 THEN 0 ELSE session_last_validated
          /\ login_found' =
                 IF st # 200 THEN login_found
                 ELSE IF CacheHit(cached_session, session_last_validated, clock)
                 THEN cached_session ELSE None
    /\ pc' = [pc EXCEPT ![t] = "done"]
    /\ UNCHANGED notBackend
    /\ UNCHANGED <<session_lock, clock, ticks, next_session, op, call,
                   validated, invalidated>>

\* /api/auth/login: builds its own BrowserSession and answers with the
\* outcome of its login_session_file_auto(); none of its statements names
\* _cached_session, _session_last_validated or _session_lock
Login(t) ==
    /\ pc[t] = "route"
    /\ op[t] = "login"
    /\ \E st \in {200, 401, 408, 500} :
          /\ st = 200 \/ login_session_file_auto(cred) # "true"
          /\ resp' = [resp EXCEPT ![t] =
                 [status |-> st, body |-> "login", handler |-> TRUE, session |-> None]]
          /\ cred' = SessionFileAfterLogin(st, cred)
          /\ login_found' =
                 IF st # 200 THEN login_found
                 ELSE IF CacheHit(cached_session, session_last_validated, clock)
                 THEN cached_session ELSE None
    /\ pc' = [pc EXCEPT ![t] = "done"]
    /\ UNCHANGED notBackend
    /\ UNCHANGED <<cacheVars, clock, ticks, next_session, op, call,
                   validated, invalidated>>

\* /api/health
HealthCheck(t) ==
    /\ pc[t] = "route"
    /\ op[t] = "health_check"
    /\ resp' = [resp EXCEPT ![t] =
           [status |-> 200, body |-> "ok", handler |-> TRUE, session |-> None]]
    /\ pc' = [pc EXCEPT ![t] = "done"]
    /\ UNCHANGED notBackend
    /\ UNCHANGED <<cacheVars, envVars, op, call, histVars>>

\* the response is sent (or the function has returned to its caller) and
\* the thread is free again
Finish(t) ==
    /\ \/ pc[t] = "done"
       \/ pc[t] \in {"session", "raised"} /\ op[t] = "get_or_create_session"
    /\ pc' = [pc EXCEPT ![t] = "idle"]
    /\ op' = [op EXCEPT ![t] = "none"]
    /\ call' = [call EXCEPT ![t] = NoCall]
    /\ resp' = [resp EXCEPT ![t] = NoResponse]
    /\ UNCHANGED notBackend
    /\ UNCHANGED <<cacheVars, envVars, histVars>>

(***************************************************************************)
(* The backend as it runs: every route, the clock, the credential file.    *)
(***************************************************************************)
NextBackend ==
    \/ \E d \in ClockSteps : Tick(d)
    \/ \E c \in CredStates : CredChange(c)
    \/ \E t \in RouteThreads, r \in Routes : StartRequest(t, r)
    \/ \E t \in RouteThreads : AcquireLock(t)
    \/ \E t \in RouteThreads : GetOrCreateSession(t)
    \/ \E t \in RouteThreads : AuthRoute(t)
    \/ \E t \in RouteThreads : AuthStatus(t)
    \/ \E t \in RouteThreads : Login(t)
    \/ \E t \in RouteThreads : HealthCheck(t)
    \/ \E t \in RouteThreads : Finish(t)

Spec == InitBackend /\ [][NextBackend]_vars

(***************************************************************************)
(* The session cache under concurrent callers of its two functions.        *)
(***************************************************************************)
NextCache ==
    \/ \E d \in ClockSteps : Tick(d)
    \/ \E c \in CredStates : CredChange(c)
    \/ \E t \in Threads : StartGet(t)
    \/ \E t \in Threads : StartInvalidate(t)
    \/ \E t \in Threads : AcquireLock(t)
    \/ \E t \in Threads : GetOrCreateSession(t)
    \/ \E t \in Threads : InvalidateSessionCache(t)
    \/ \E t \in Threads : Finish(t)

SpecCache == InitBackend /\ [][NextCache]_vars

(***************************************************************************)
(* batch_search(): the handler body, run with the session the decorator    *)
(* bound.                                                                  *)
(***************************************************************************)
\* the cap on the number of queries
MAX_BATCH_QUERIES == 100
\* default and bounds of limit_per_query
DEFAULT_LIMIT_PER_QUERY == 5
MAX_LIMIT_PER_QUERY == 20

\* a key the JSON object does not have
Absent == "<absent>"
\* a JSON value that is not a string
NotAString == "<null>"

\* the JSON values a 'queries' list is built from: plain strings, objects
\* with 'query' and 'type', an object with neither, an object whose 'type'
\* is null, and a number
QueryItems ==
    {[kind |-> "str", query |-> "a", type |-> Absent],
     [kind |-> "str", query |-> "", type |-> Absent],
     [kind |-> "dict", query |-> "b", type |-> "album"],
     [kind |-> "dict", query |-> Absent, type |-> Absent],
     [kind |-> "dict", query |-> "c", type |-> NotAString],
     [kind |-> "num", query |-> "7", type |-> Absent]}

\* what request_data holds under 'queries': nothing, a JSON value that is
\* not a list, or a list
QueriesKinds == {"absent", "not a list", "list"}

\* q in search_single: query_obj.get('query', '') or str(query_obj)
QueryText(item) ==
    IF item.kind = "dict"
    THEN (IF item.query = Absent THEN "" ELSE item.query)
    ELSE item.query

\* search_type in search_single: query_obj.get('type', 'track') or 'track'
SearchType(item) ==
    IF item.kind = "dict" /\ item.type # Absent THEN item.type ELSE "track"

\* model_map.get(search_type.lower(), [tidalapi.Track])
SearchModels(type) ==
    IF type \in {"track", "album", "artist", "playlist", "all"} THEN type ELSE "track"

\* limit_per_query = min(max(1, limit_per_query), 20)
ClampLimitPerQuery(l) ==
    LET lo == IF l < 1 THEN 1 ELSE l
    IN IF lo > MAX_LIMIT_PER_QUERY THEN MAX_LIMIT_PER_QUERY ELSE lo

\* search_single(query_obj, search_session): the record returned for one
\* item, given what search_session.search() does when it is called
search_single(item, outcome, limit) ==
    LET q == QueryText(item)
        type == SearchType(item)
    IN IF q = ""
       THEN [query |-> q, error |-> "Empty query", type |-> Absent, hits |-> <<>>]
       ELSE IF type = NotAString
       THEN \* search_type.lower() raises inside the try
            [query |-> q, error |-> "AttributeError", type |-> Absent, hits |-> <<>>]
       ELSE IF outcome = "raise"
       THEN [query |-> q, error |-> "search raised", type |-> Absent, hits |-> <<>>]
       ELSE [query |-> q, error |-> Absent, type |-> type,
             hits |-> <<q, SearchModels(type), limit>>]

\* whether search_single reaches search_session.search() for the item
CallsSearch(item) == QueryText(item) # "" /\ SearchType(item) # NotAString

\* mutant: results are collected newest first
CollectResult_Prepend(results, result) == <<result>> \o results

\* mutant: an item that failed leaves no entry
CollectResult_DropErrors(results, result) ==
    IF result.error # Absent THEN results ELSE Append(results, result)

\* results.append(result)
CollectResult(results, result) == Append(results, result)

\* Flask hands the handler a request body
BatchRequests ==
    {[kind |-> k, queries |-> qs, limit_given |-> g, limit |-> l] :
        k \in QueriesKinds,
        qs \in UNION {[1..n -> QueryItems] : n \in 0..MaxQueries},
        g \in BOOLEAN,
        l \in {0, MAX_LIMIT_PER_QUERY + 1}}

\* a body of the shape request.get_json() returns
WellFormedRequest(req) ==
    /\ req.kind # "list" => req.queries = <<>>
    /\ ~req.limit_given => req.limit = 0

BatchArrives(req) ==
    /\ bs_pc = "idle"
    /\ WellFormedRequest(req)
    /\ bs_request' = req
    /\ bs_pc' = "validate"
    /\ UNCHANGED <<bs_limit, bs_i, bs_results, bs_outcomes, bs_response>>
    /\ UNCHANGED notBatch

\* mutant: the cap refuses a list of exactly 100 items
TooMany_Inclusive(queries) == Len(queries) >= MAX_BATCH_QUERIES

\* "if len(queries) > 100"
TooMany(queries) == Len(queries) > MAX_BATCH_QUERIES

\* lines 286-300: the request is refused, or the loop is entered
BatchValidate ==
    /\ bs_pc = "validate"
    /\ IF bs_request.kind = "absent"
          \/ bs_request.kind = "not a list"
          \/ Len(bs_request.queries) = 0
          \/ TooMany(bs_request.queries)
       THEN /\ bs_response' = [status |-> 400, results |-> <<>>, total |-> 0]
            /\ bs_pc' = "done"
            /\ UNCHANGED <<bs_limit, bs_i>>
       ELSE /\ bs_limit' = ClampLimitPerQuery(
                               IF bs_request.limit_given
                               THEN bs_request.limit
                               ELSE DEFAULT_LIMIT_PER_QUERY)
            /\ bs_i' = 1
            /\ bs_pc' = "loop"
            /\ UNCHANGED bs_response
    /\ UNCHANGED <<bs_request, bs_results, bs_outcomes>>
    /\ UNCHANGED notBatch

\* one iteration of "for i, q in enumerate(queries)"
BatchItem ==
    /\ bs_pc = "loop"
    /\ bs_i <= Len(bs_request.queries)
    /\ LET item == bs_request.queries[bs_i]
       IN \E outcome \in IF CallsSearch(item) THEN {"ok", "raise"} ELSE {"not called"} :
             /\ bs_results' = CollectResult(bs_results,
                                            search_single(item, outcome, bs_limit))
             /\ bs_outcomes' = Append(bs_outcomes, outcome)
    /\ bs_i' = bs_i + 1
    /\ UNCHANGED <<bs_pc, bs_request, bs_limit, bs_response>>
    /\ UNCHANGED notBatch

\* return jsonify({"results": results, "total": len(results)})
BatchRespond ==
    /\ bs_pc = "loop"
    /\ bs_i > Len(bs_request.queries)
    /\ bs_response' = [status |-> 200, results |-> bs_results,
                       total |-> Len(bs_results)]
    /\ bs_pc' = "done"
    /\ UNCHANGED <<bs_request, bs_limit, bs_i, bs_results, bs_outcomes>>
    /\ UNCHANGED notBatch

NextBatch ==
    \/ \E req \in BatchRequests : BatchArrives(req)
    \/ BatchValidate
    \/ BatchItem
    \/ BatchRespond

\* a batch-search handler of a backend whose session is in place
InitBatch ==
    /\ BackendStart /\ cred = "valid" /\ HandlersIdle
    /\ SupervisorStart /\ ToolServerStart

SpecBatch == InitBatch /\ [][NextBatch]_vars

(***************************************************************************)
(* get_batch_recommendations(): the handler body.  Every seed gets a       *)
(* worker of a ThreadPoolExecutor; the request thread merges the workers'  *)
(* results in the order as_completed yields them.                          *)
(***************************************************************************)
\* seed track ids a request can name
SeedIds == {1, 2}

\* what track.get_track_radio() can return for a seed: lists of tracks,
\* here by id; nothing in the handler keeps a list from naming a track twice
RadioResults == {<<10>>, <<11>>, <<10, 11>>, <<10, 10>>}

\* what a worker's call on the client does: session.track() or
\* get_track_radio() raises, or the radio comes back
RadioOutcomes ==
    {[raised |-> TRUE, tracks |-> <<>>]}
    \cup {[raised |-> FALSE, tracks |-> r] : r \in RadioResults}

\* format_track_data(rec, source_track_id=track_id), by id
FormatRecommendations(seed, tracks) ==
    [i \in 1..Len(tracks) |-> [id |-> tracks[i], source_track_id |-> seed]]

\* mutant: the worker has no try/except
get_track_recommendations_NoExcept(seed, outcome) ==
    IF outcome.raised
    THEN [raised |-> TRUE, tracks |-> <<>>]
    ELSE [raised |-> FALSE, tracks |-> FormatRecommendations(seed, outcome.tracks)]

\* the nested get_track_recommendations(track_id): what future.result()
\* gives, given what the client did
get_track_recommendations(seed, outcome) ==
    IF outcome.raised
    THEN [raised |-> FALSE, tracks |-> <<>>]
    ELSE [raised |-> FALSE, tracks |-> FormatRecommendations(seed, outcome.tracks)]

\* mutant: the id that was appended is not remembered
MergeTrack_NoAdd(acc, track_data, remove_duplicates) ==
    IF remove_duplicates /\ track_data.id \in acc.seen
    THEN acc
    ELSE [all |-> Append(acc.all, track_data), seen |-> acc.seen]

\* lines 452-459: one track_data of a worker's result
MergeTrack(acc, track_data, remove_duplicates) ==
    IF remove_duplicates /\ track_data.id \in acc.seen
    THEN acc
    ELSE [all |-> Append(acc.all, track_data),
          seen |-> acc.seen \cup {track_data.id}]

\* lines 451-459: "for track_data in track_recommendations"
RECURSIVE MergeTracks(_, _, _)
MergeTracks(acc, tracks, remove_duplicates) ==
    IF tracks = <<>>
    THEN acc
    ELSE MergeTracks(MergeTrack(acc, Head(tracks), remove_duplicates),
                     Tail(tracks), remove_duplicates)

RecRequests ==
    {[kind |-> k, track_ids |-> ids, remove_duplicates |-> d] :
        k \in QueriesKinds,
        ids \in UNION {[1..n -> SeedIds] : n \in 0..MaxSeeds},
        d \in BOOLEAN}

RecArrives(req) ==
    /\ rec_pc = "idle"
    /\ req.kind # "list" => req.track_ids = <<>>
    /\ rec_request' = req
    /\ rec_pc' = "validate"
    /\ UNCHANGED <<rec_future, rec_merged, all_recommendations, seen_track_ids,
                   rec_response>>
    /\ UNCHANGED notRec

\* lines 406-444: the request is refused, the executor cannot be built, or
\* every seed's worker is submitted
RecValidate ==
    /\ rec_pc = "validate"
    /\ IF rec_request.kind # "list"
       THEN /\ rec_response' = [status |-> 400, recommendations |-> <<>>]
            /\ rec_pc' = "done"
            /\ UNCHANGED rec_future
       ELSE IF Len(rec_request.track_ids) = 0
       THEN \* ThreadPoolExecutor(max_workers=0) raises ValueError
            /\ rec_response' = [status |-> 500, recommendations |-> <<>>]
            /\ rec_pc' = "done"
            /\ UNCHANGED rec_future
       ELSE /\ rec_future' = [w \in 1..Len(rec_request.track_ids) |->
                                 [state |-> "running", raised |-> FALSE,
                                  outcome |-> [raised |-> FALSE, tracks |-> <<>>],
                                  tracks |-> <<>>]]
            /\ rec_pc' = "pool"
            /\ UNCHANGED rec_response
    /\ UNCHANGED <<rec_request, rec_merged, all_recommendations, seen_track_ids>>
    /\ UNCHANGED notRec

\* mutant: the worker inserts its own result into the accumulator
WorkerCompletes_Inserts(w, outcome) ==
    /\ rec_pc = "pool"
    /\ w \in DOMAIN rec_future
    /\ rec_future[w].state = "running"
    /\ LET r == get_track_recommendations(rec_request.track_ids[w], outcome)
           acc == MergeTracks([all |-> all_recommendations, seen |-> seen_track_ids],
                              r.tracks, rec_request.remove_duplicates)
       IN /\ rec_future' = [rec_future EXCEPT ![w] =
                 [state |-> "finished", raised |-> r.raised, outcome |-> outcome,
                  tracks |-> <<>>]]
          /\ all_recommendations' = acc.all
          /\ seen_track_ids' = acc.seen
    /\ UNCHANGED <<rec_pc, rec_request, rec_merged, rec_response>>
    /\ UNCHANGED notRec

\* the worker of seed w finishes
WorkerCompletes(w, outcome) ==
    /\ rec_pc = "pool"
    /\ w \in DOMAIN rec_future
    /\ rec_future[w].state = "running"
    /\ LET r == get_track_recommendations(rec_request.track_ids[w], outcome)
       IN rec_future' = [rec_future EXCEPT ![w] =
              [state |-> "finished", raised |-> r.raised, outcome |-> outcome,
               tracks |-> r.tracks]]
    /\ UNCHANGED <<rec_pc, rec_request, rec_merged, all_recommendations,
                   seen_track_ids, rec_response>>
    /\ UNCHANGED notRec

\* as_completed yields a finished future and the request thread merges
\* its result (or future.result() re-raises and the handler answers 500)
MergeFuture(w) ==
    /\ rec_pc = "pool"
    /\ w \in DOMAIN rec_future
    /\ rec_future[w].state = "finished"
    /\ rec_merged' = Append(rec_merged, w)
    /\ rec_future' = [rec_future EXCEPT ![w].state = "merged"]
    /\ IF rec_future[w].raised
       THEN /\ rec_response' = [status |-> 500, recommendations |-> <<>>]
            /\ rec_pc' = "done"
            /\ UNCHANGED <<all_recommendations, seen_track_ids>>
       ELSE LET acc == MergeTracks([all |-> all_recommendations,
                                    seen |-> seen_track_ids],
                                   rec_future[w].tracks,
                                   rec_request.remove_duplicates)
            IN /\ all_recommendations' = acc.all
               /\ seen_track_ids' = acc.seen
               /\ UNCHANGED <<rec_pc, rec_response>>
    /\ UNCHANGED rec_request
    /\ UNCHANGED notRec

\* every future was yielded: return jsonify({"recommendations": ...})
RecRespond ==
    /\ rec_pc = "pool"
    /\ \A w \in DOMAIN rec_future : rec_future[w].state = "merged"
    /\ rec_response' = [status |-> 200, recommendations |-> all_recommendations]
    /\ rec_pc' = "done"
    /\ UNCHANGED <<rec_request, rec_future, rec_merged, all_recommendations,
                   seen_track_ids>>
    /\ UNCHANGED notRec

NextRec ==
    \/ \E req \in RecRequests : RecArrives(req)
    \/ RecValidate
    \/ \E w \in 1..MaxSeeds, o \in RadioOutcomes : WorkerCompletes(w, o)
    \/ \E w \in 1..MaxSeeds : MergeFuture(w)
    \/ RecRespond

\* a batch-recommendations handler of a backend whose session is in place
InitRec ==
    /\ BackendStart /\ cred = "valid" /\ HandlersIdle
    /\ SupervisorStart /\ ToolServerStart

SpecRec == InitRec /\ [][NextRec]_vars

(***************************************************************************)
(* The process supervisor: start_flask_app() and the child it launches.    *)
(* Time is counted in half seconds, the period of the polling loop.        *)
(***************************************************************************)
\* FLASK_STARTUP_TIMEOUT, in seconds
FLASK_STARTUP_TIMEOUT == 30
\* time.sleep(0.5), in half seconds
POLL_SLEEP == 1
\* sock.settimeout(1), in half seconds
PROBE_TIMEOUT == 2

\* the startup timeout in half seconds
StartupTimeout == FLASK_STARTUP_TIMEOUT * 2

\* the exit statuses of a child that ends by itself
ExitCodes == {0, 1}
\* Popen.returncode of a child ended by SIGTERM
SIGTERM_CODE == 0 - 15
\* Popen.returncode of a child ended by SIGKILL
SIGKILL_CODE == 0 - 9

\* the pcs at which start_flask_app() has ended
Ended == {"returned", "raised_exit", "raised_timeout"}

\* subprocess.Popen(...): the child runs; start_time = time.time()
Launch ==
    /\ sup_pc = "init"
    /\ child' = "running"
    /\ sup_pc' = "while"
    /\ \E f \in BOOLEAN : foreign' = f
    /\ UNCHANGED <<child_code, returncode, listening, elapsed, loop_time,
                   flask_ready, sup_error, signals, exit_at, exit_unaccepted,
                   checks_after_exit>>
    /\ UNCHANGED accepted
    /\ UNCHANGED notSup

\* time.time() - start_time < FLASK_STARTUP_TIMEOUT
StartupTimeLeft(t) == t < StartupTimeout

\* the test of the while loop
WhileTest ==
    /\ sup_pc = "while"
    /\ loop_time' = elapsed
    /\ sup_pc' = IF StartupTimeLeft(elapsed) THEN "alive" ELSE "after"
    /\ UNCHANGED <<child, child_code, returncode, listening, foreign, elapsed,
                   flask_ready, sup_error, signals, exit_at, exit_unaccepted,
                   checks_after_exit>>
    /\ UNCHANGED accepted
    /\ UNCHANGED notSup

\* mutant: the result of poll() is not looked at
check_process_alive_Always(c) == TRUE

\* _check_process_alive(process): process.poll() is None
check_process_alive(c) == c = "running"

\* mutant: the liveness check is skipped
LivenessRaises_Never(c) == FALSE

\* "if not _check_process_alive(flask_process)"
LivenessRaises(c) == ~check_process_alive(c)

\* lines 109-112: the liveness check, raising with the exit code
CheckAlive ==
    /\ sup_pc = "alive"
    /\ checks_after_exit' = IF child = "exited" /\ checks_after_exit = 0
                            THEN 1 ELSE checks_after_exit
    /\ returncode' = IF child = "exited"
                     THEN [set |-> TRUE, code |-> child_code]
                     ELSE returncode
    /\ IF LivenessRaises(child)
       THEN /\ sup_error' = [kind |-> "exit", code |-> child_code]
            /\ sup_pc' = "raised_exit"
       ELSE /\ sup_pc' = "probe"
            /\ UNCHANGED sup_error
    /\ UNCHANGED <<child, child_code, listening, foreign, elapsed, loop_time,
                   flask_ready, signals, exit_at, exit_unaccepted>>
    /\ UNCHANGED accepted
    /\ UNCHANGED notSup

\* sock.connect_ex(('127.0.0.1', FLASK_PORT)) == 0
PortAccepts == listening \/ foreign

\* mutant: any outcome of the probe counts as ready
ProbeReady_Always(result) == TRUE

\* "if result == 0"
ProbeReady(result) == result

\* lines 115-124: the probe, which takes up to its timeout
Probe(d) ==
    /\ sup_pc = "probe"
    /\ elapsed' = elapsed + d
    /\ accepted' = PortAccepts
    /\ IF ProbeReady(PortAccepts)
       THEN /\ flask_ready' = TRUE
            /\ sup_pc' = "after"
       ELSE /\ sup_pc' = "sleep"
            /\ UNCHANGED flask_ready
    /\ UNCHANGED <<child, child_code, returncode, listening, foreign, loop_time,
                   sup_error, signals, exit_at, exit_unaccepted,
                   checks_after_exit>>
    /\ UNCHANGED notSup

\* time.sleep(0.5)
Sleep ==
    /\ sup_pc = "sleep"
    /\ elapsed' = elapsed + POLL_SLEEP
    /\ sup_pc' = "while"
    /\ UNCHANGED <<child, child_code, returncode, listening, foreign, loop_time,
                   flask_ready, sup_error, signals, exit_at, exit_unaccepted,
                   checks_after_exit>>
    /\ UNCHANGED accepted
    /\ UNCHANGED notSup

\* lines 128-135: after the loop
AfterLoop ==
    /\ sup_pc = "after"
    /\ IF ~flask_ready
       THEN /\ signals' = Append(signals, "SIGTERM")
            /\ sup_error' = [kind |-> "timeout", code |-> 0]
            /\ sup_pc' = "raised_timeout"
       ELSE /\ sup_pc' = "returned"
            /\ UNCHANGED <<signals, sup_error>>
    /\ UNCHANGED <<child, child_code, returncode, listening, foreign, elapsed,
                   loop_time, flask_ready, exit_at, exit_unaccepted,
                   checks_after_exit>>
    /\ UNCHANGED accepted
    /\ UNCHANGED notSup

\* the backend binds FLASK_PORT and serves
ChildListens ==
    /\ child = "running"
    /\ ~listening
    /\ ~foreign
    /\ listening' = TRUE
    /\ UNCHANGED <<sup_pc, child, child_code, returncode, foreign, elapsed,
                   loop_time, flask_ready, sup_error, signals, exit_at,
                   exit_unaccepted, checks_after_exit>>
    /\ UNCHANGED accepted
    /\ UNCHANGED notSup

\* the child process ends
ChildExits(code) ==
    /\ child = "running"
    /\ code = SIGTERM_CODE => signals # <<>>
    /\ code = SIGKILL_CODE => \E k \in 1..Len(signals) : signals[k] = "SIGKILL"
    /\ child' = "exited"
    /\ child_code' = code
    /\ listening' = FALSE
    /\ exit_at' = elapsed
    /\ exit_unaccepted' = (sup_pc \notin Ended /\ ~flask_ready)
    /\ UNCHANGED <<sup_pc, returncode, foreign, elapsed, loop_time, flask_ready,
                   sup_error, signals, checks_after_exit>>
    /\ UNCHANGED accepted
    /\ UNCHANGED notSup

NextSup ==
    \/ Launch
    \/ WhileTest
    \/ CheckAlive
    \/ \E d \in 0..PROBE_TIMEOUT : Probe(d)
    \/ Sleep
    \/ AfterLoop
    \/ ChildListens
    \/ \E code \in ExitCodes \cup {SIGTERM_CODE} : ChildExits(code)

\* the tool-server at import time, before it starts the backend
InitSup ==
    /\ BackendStart /\ cred = "valid" /\ HandlersIdle
    /\ SupervisorStart /\ ToolServerStart

SpecSup == InitSup /\ [][NextSup]_vars

\* one step of start_flask_app() itself
StartStep ==
    \/ Launch
    \/ WhileTest
    \/ CheckAlive
    \/ \E d \in 0..PROBE_TIMEOUT : Probe(d)
    \/ Sleep
    \/ AfterLoop

\* the supervisor with its scheduling: start_flask_app() keeps running
\* until it ends, and a child sent SIGKILL ends; a child sent SIGTERM may
\* or may not react to it
SpecSupLive ==
    /\ InitSup
    /\ [][NextSup]_vars
    /\ WF_vars(StartStep)
    /\ WF_vars(ChildExits(SIGKILL_CODE))

(***************************************************************************)
(* shutdown_flask_app(): terminate(), wait(timeout=5), kill().             *)
(* flask_process is the Popen object from the launch on; nothing resets    *)
(* it.  Popen.terminate() and Popen.kill() poll the child first and send   *)
(* nothing to a child whose exit they have collected.                      *)
(***************************************************************************)
\* mutant: the exit of the child is never collected
Poll_Never(c, rc, code) == rc

\* process.poll(): the returncode attribute after the call
Poll(c, rc, code) == IF c = "exited" THEN [set |-> TRUE, code |-> code] ELSE rc

\* "if flask_process:"
HasProcess(c) == c # "none"

\* the signals sent to the child so far include sig
Sent(sig) == \E k \in 1..Len(signals) : signals[k] = sig

\* shutdown_flask_app() is entered
ShutdownEnter ==
    /\ sd_pc = "idle"
    /\ sd_calls' = sd_calls + 1
    /\ sd_sent' = Append(sd_sent, [process |-> HasProcess(child), signals |-> <<>>])
    /\ sd_pc' = IF HasProcess(child) THEN "terminate" ELSE "done"

\* flask_process.terminate()
ShutdownTerminate ==
    /\ sd_pc = "terminate"
    /\ LET rc == Poll(child, returncode, child_code)
       IN /\ returncode' = rc
          /\ IF rc.set
             THEN UNCHANGED <<signals, sd_sent>>
             ELSE /\ signals' = Append(signals, "SIGTERM")
                  /\ sd_sent' = [sd_sent EXCEPT ![sd_calls].signals = Append(@, "SIGTERM")]
    /\ sd_pc' = "wait"
    /\ UNCHANGED <<sup_pc, child, child_code, listening, foreign, elapsed,
                   loop_time, flask_ready, sup_error, accepted, exit_at,
                   exit_unaccepted, checks_after_exit>>
    /\ UNCHANGED <<lifeVars, sd_calls>>
    /\ UNCHANGED notToolServer

\* flask_process.wait(timeout=5): returns once the child has exited, raises
\* TimeoutExpired while it is still running
ShutdownWait ==
    /\ sd_pc = "wait"
    /\ returncode' = Poll(child, returncode, child_code)
    /\ sd_pc' = IF returncode'.set THEN "done" ELSE "kill"
    /\ UNCHANGED <<sup_pc, child, child_code, listening, foreign, elapsed,
                   loop_time, flask_ready, sup_error, signals, accepted, exit_at,
                   exit_unaccepted, checks_after_exit>>
    /\ UNCHANGED <<lifeVars, sd_calls, sd_sent>>
    /\ UNCHANGED notToolServer

\* except subprocess.TimeoutExpired: flask_process.kill()
ShutdownKill ==
    /\ sd_pc = "kill"
    /\ LET rc == Poll(child, returncode, child_code)
       IN /\ returncode' = rc
          /\ IF rc.set
             THEN UNCHANGED <<signals, sd_sent>>
             ELSE /\ signals' = Append(signals, "SIGKILL")
                  /\ sd_sent' = [sd_sent EXCEPT ![sd_calls].signals = Append(@, "SIGKILL")]
    /\ sd_pc' = "done"
    /\ UNCHANGED <<sup_pc, child, child_code, listening, foreign, elapsed,
                   loop_time, flask_ready, sup_error, accepted, exit_at,
                   exit_unaccepted, checks_after_exit>>
    /\ UNCHANGED <<lifeVars, sd_calls>>
    /\ UNCHANGED notToolServer

\* shutdown_flask_app() returns; when the exit hooks called it, the
\* tool-server process is gone
ShutdownReturn ==
    /\ sd_pc = "done"
    /\ sd_pc' = "idle"
    /\ ts_pc' = IF ts_pc = "exit_hooks" THEN "gone" ELSE ts_pc
    /\ UNCHANGED <<hook_registered, startup_exception, sd_calls, sd_sent>>
    /\ UNCHANGED supVars
    /\ UNCHANGED notToolServer

\* a caller in the tool-server calls shutdown_flask_app(), before the start
\* or after it ended
CallShutdown ==
    /\ sup_pc \in Ended \cup {"init"}
    /\ ts_pc = "import"
    /\ sd_calls < MaxShutdownCalls
    /\ ShutdownEnter
    /\ UNCHANGED lifeVars
    /\ UNCHANGED supVars
    /\ UNCHANGED notToolServer

NextStop ==
    \/ Launch
    \/ WhileTest
    \/ CheckAlive
    \/ \E d \in 0..PROBE_TIMEOUT : Probe(d)
    \/ Sleep
    \/ AfterLoop
    \/ ChildListens
    \/ \E code \in ExitCodes \cup {SIGTERM_CODE, SIGKILL_CODE} : ChildExits(code)
    \/ CallShutdown
    \/ ShutdownTerminate
    \/ ShutdownWait
    \/ ShutdownKill
    \/ ShutdownReturn

SpecStop == InitSup /\ [][NextStop]_vars

(***************************************************************************)
(* bound_limit() and the handlers that bound their 'limit' parameter.      *)
(***************************************************************************)
\* mutant: the upper bound is not applied
bound_limit_NoUpper(limit, max_n) == IF limit < 1 THEN 1 ELSE limit

\* bound_limit(limit, max_n)
bound_limit(limit, max_n) ==
    IF limit < 1 THEN 1
    ELSE IF limit > max_n THEN max_n
    ELSE limit

\* the routes that bound a 'limit' parameter
LimitRoutes ==
    {"get_tracks", "search", "get_track_recommendations", "get_playlist_tracks",
     "batch_search"}

\* request.args.get('limit', default=..., type=int): the default per route
LimitDefault(r) ==
    CASE r = "get_tracks" -> 10
      [] r = "search" -> 50
      [] r = "get_track_recommendations" -> 10
      [] r = "get_playlist_tracks" -> 100
      [] OTHER -> DEFAULT_LIMIT_PER_QUERY

\* the max_n each route passes to bound_limit (50 when it passes none)
LimitMax(r) ==
    CASE r = "search" -> 300
      [] r = "get_playlist_tracks" -> 500
      [] r = "batch_search" -> MAX_LIMIT_PER_QUERY
      [] OTHER -> 50

\* the integers a 'limit' or 'offset' parameter is drawn from
LimitInputs == ((0 - LimitMargin)..(500 + LimitMargin)) \cup {1000}
OffsetInputs == (0 - 2)..2

\* the value the handler bounds: the parameter, or the default without one
LimitArgument(req) ==
    IF req.limit_given THEN req.limit ELSE LimitDefault(req.route)

\* the limit the handler of req.route passes on
RouteLimit(req) ==
    IF req.route = "batch_search"
    THEN ClampLimitPerQuery(LimitArgument(req))
    ELSE bound_limit(LimitArgument(req), LimitMax(req.route))

\* get_playlist_tracks: "if offset < 0: offset = 0"
RouteOffset(req) ==
    IF req.route = "get_playlist_tracks" /\ req.offset < 0 THEN 0 ELSE req.offset

\* a request with query parameters reaches its handler
LimitArrives(r, g, l, o) ==
    /\ bl_pc = "idle"
    /\ ~g => l = 0
    /\ r # "get_playlist_tracks" => o = 0
    /\ bl_request' = [route |-> r, limit_given |-> g, limit |-> l, offset |-> o]
    /\ bl_pc' = "args"
    /\ UNCHANGED <<bl_limit, bl_offset>>
    /\ UNCHANGED <<backendVars, batchVars, recVars, supVars, serverVars>>

\* the handler reads and bounds its parameters
LimitApply ==
    /\ bl_pc = "args"
    /\ bl_limit' = RouteLimit(bl_request)
    /\ bl_offset' = RouteOffset(bl_request)
    /\ bl_pc' = "done"
    /\ UNCHANGED bl_request
    /\ UNCHANGED <<backendVars, batchVars, recVars, supVars, serverVars>>

NextBound ==
    \/ \E r \in LimitRoutes, g \in BOOLEAN, l \in LimitInputs, o \in OffsetInputs :
          LimitArrives(r, g, l, o)
    \/ LimitApply

\* a backend whose session is in place, serving one request
InitBound ==
    /\ BackendStart /\ cred = "valid" /\ HandlersIdle
    /\ SupervisorStart /\ ToolServerStart

SpecBound == InitBound /\ [][NextBound]_vars

(***************************************************************************)
(* The tools of the tool-server (mcp_server/server.py).  A tool sends its  *)
(* requests to the backend one after the other; each request meets a       *)
(* response or a transport failure, and the function that sent it turns    *)
(* that into a result or goes on to its next request.                      *)
(***************************************************************************)
Tools ==
    {"tidal_login", "get_favorite_tracks", "search_tidal", "batch_search_tidal",
     "create_playlist_from_songs", "recommend_tracks", "create_tidal_playlist",
     "add_tracks_to_playlist", "get_user_playlists", "get_playlist_tracks",
     "delete_tidal_playlist", "download_track", "download_album",
     "download_playlist", "download_favorites"}

DownloadTools ==
    {"download_track", "download_album", "download_playlist", "download_favorites"}

\* the backend routes the download tools call; none is decorated
DownloadRoutes ==
    {"download_status", "download_track", "download_album", "download_playlist",
     "download_favorites"}

\* the requests a tool call sends, in order, each with the function that
\* sends it
Plan(c) ==
    CASE c.tool = "tidal_login" -> <<[fn |-> "tidal_login", route |-> "login"]>>
      [] c.tool = "get_favorite_tracks" ->
            <<[fn |-> "get_favorite_tracks", route |-> "get_tracks"]>>
      [] c.tool = "search_tidal" -> <<[fn |-> "search_tidal", route |-> "search"]>>
      [] c.tool = "batch_search_tidal" ->
            <<[fn |-> "batch_search_tidal", route |-> "batch_search"]>>
      [] c.tool = "create_playlist_from_songs" ->
            <<[fn |-> "create_playlist_from_songs", route |-> "batch_search"],
              [fn |-> "create_playlist_from_songs", route |-> "create_playlist"]>>
      [] c.tool = "recommend_tracks" /\ c.explicit_ids ->
            <<[fn |-> "_get_tidal_recommendations",
               route |-> "get_batch_recommendations"]>>
      [] c.tool = "recommend_tracks" /\ ~c.explicit_ids ->
            <<[fn |-> "get_favorite_tracks", route |-> "get_tracks"],
              [fn |-> "_get_tidal_recommendations",
               route |-> "get_batch_recommendations"]>>
      [] c.tool = "create_tidal_playlist" ->
            <<[fn |-> "create_tidal_playlist", route |-> "create_playlist"]>>
      [] c.tool = "add_tracks_to_playlist" ->
            <<[fn |-> "add_tracks_to_playlist", route |-> "add_tracks_to_playlist"]>>
      [] c.tool = "get_user_playlists" ->
            <<[fn |-> "get_user_playlists", route |-> "get_user_playlists"]>>
      [] c.tool = "get_playlist_tracks" ->
            <<[fn |-> "get_playlist_tracks", route |-> "get_playlist_tracks"]>>
      [] c.tool = "delete_tidal_playlist" ->
            <<[fn |-> "delete_tidal_playlist", route |-> "delete_playlist"]>>
      [] OTHER -> <<[fn |-> c.tool, route |-> "download_status"],
                    [fn |-> c.tool, route |-> c.tool]>>

\* requests.exceptions a request can raise: ReadTimeout is a Timeout,
\* ConnectTimeout is a ConnectionError and a Timeout, a refused connection
\* is a ConnectionError
TransportFailures == {"ReadTimeout", "ConnectTimeout", "ConnectionRefused"}

\* isinstance(exc, cls)
IsInstance(exc, cls) ==
    CASE cls = "Timeout" -> exc \in {"ReadTimeout", "ConnectTimeout"}
      [] cls = "ConnectionError" -> exc \in {"ConnectTimeout", "ConnectionRefused"}
      [] OTHER -> TRUE

\* mutant: only the timeout has an except clause
ExceptClauses_TimeoutOnly(fn) == <<"Timeout">>

\* the except clauses around the function's requests, in order
ExceptClauses(fn) ==
    IF fn \in DownloadTools
    THEN <<"Timeout", "Exception">>
    ELSE <<"Timeout", "ConnectionError", "Exception">>

\* the message of the "except requests.exceptions.Timeout" clause
TimeoutMessage(fn) ==
    CASE fn = "tidal_login" -> "Login timed out after 5 minutes."
      [] fn = "get_favorite_tracks" -> "Request timed out after 15s."
      [] fn = "search_tidal" -> "Search timed out after 15s."
      [] fn = "batch_search_tidal" -> "Batch search timed out."
      [] fn = "create_playlist_from_songs" -> "Request timed out. Try with fewer songs."
      [] fn = "_get_tidal_recommendations" -> "Recommendations request timed out."
      [] fn = "create_tidal_playlist" -> "Playlist creation timed out."
      [] fn = "add_tracks_to_playlist" -> "Request timed out."
      [] fn = "get_user_playlists" -> "Request timed out after 60s."
      [] fn \in {"get_playlist_tracks", "delete_tidal_playlist"} ->
            "Request timed out after 15s."
      [] OTHER -> "Download request timed out."

\* the message of the "except requests.exceptions.ConnectionError" clause
ConnectionMessage(fn) == "Cannot connect to TIDAL backend service."

\* the text before str(e) in the "except Exception" clause
ExceptionPrefix(fn) ==
    CASE fn = "tidal_login" -> "Failed to connect to TIDAL authentication service: "
      [] fn = "get_favorite_tracks" -> "Failed to connect to TIDAL tracks service: "
      [] fn = "search_tidal" -> "Failed to search TIDAL: "
      [] fn = "batch_search_tidal" -> "Batch search failed: "
      [] fn \in {"create_playlist_from_songs", "create_tidal_playlist"} ->
            "Failed to create playlist: "
      [] fn = "_get_tidal_recommendations" -> "Failed to get recommendations: "
      [] fn = "add_tracks_to_playlist" -> "Failed to add tracks to playlist: "
      [] fn = "get_user_playlists" -> "Failed to connect to TIDAL playlists service: "
      [] fn \in {"get_playlist_tracks", "delete_tidal_playlist"} ->
            "Failed to connect to TIDAL playlist service: "
      [] fn = "download_track" -> "Failed to download track: "
      [] fn = "download_album" -> "Failed to download album: "
      [] fn = "download_playlist" -> "Failed to download playlist: "
      [] OTHER -> "Failed to download favorites: "

\* a function's result: "payload" is the backend's JSON returned as it is,
\* "continue" means the function goes on to its next request; a message is
\* the sequence of the texts it is concatenated from
FnError(msg) == [status |-> "error", message |-> msg, raised |-> FALSE]
FnSuccess == [status |-> "success", message |-> <<>>, raised |-> FALSE]
FnPayload == [status |-> "payload", message |-> <<>>, raised |-> FALSE]
FnContinue == [status |-> "continue", message |-> <<>>, raised |-> FALSE]
FnRaised(exc) == [status |-> "none", message |-> <<exc>>, raised |-> TRUE]

\* the first except clause that matches, or none
RECURSIVE MatchingClause(_, _)
MatchingClause(clauses, exc) ==
    IF clauses = <<>> THEN "none"
    ELSE IF IsInstance(exc, Head(clauses)) THEN Head(clauses)
    ELSE MatchingClause(Tail(clauses), exc)

\* what the function returns when its request raises exc
HandleException(fn, exc) ==
    LET cls == MatchingClause(ExceptClauses(fn), exc)
    IN CASE cls = "Timeout" -> FnError(<<TimeoutMessage(fn)>>)
         [] cls = "ConnectionError" -> FnError(<<ConnectionMessage(fn)>>)
         [] cls = "Exception" -> FnError(<<ExceptionPrefix(fn), exc>>)
         [] OTHER -> FnRaised(exc)

\* the result for a 401: _check_auth_error(), and get_favorite_tracks' own
\* "elif response.status_code == 401"
AUTH_MESSAGE == "Not authenticated with TIDAL. Please login first using tidal_login()."

\* the functions that test the response for 401
ChecksAuth(fn) ==
    fn \in {"get_favorite_tracks", "search_tidal", "batch_search_tidal",
            "create_playlist_from_songs", "create_tidal_playlist",
            "add_tracks_to_playlist", "get_user_playlists", "get_playlist_tracks",
            "delete_tidal_playlist"}

\* _check_auth_error(response) returned an error dict
check_auth_error(fn, st) == ChecksAuth(fn) /\ st = 401

\* the functions with a branch for 404
ChecksNotFound(fn) ==
    fn \in {"add_tracks_to_playlist", "get_playlist_tracks", "delete_tidal_playlist"}

\* the 'error' (for login: 'message') text of the backend's error body
BackendError(route, st) ==
    IF route \in AuthRoutes /\ st = 401 THEN "Not authenticated"
    ELSE IF route = "login" /\ st = 401 THEN "Authentication failed"
    ELSE "<backend error>"

\* the message of the function's branch for any other status
FailureMessage(fn, route, st) ==
    LET err == BackendError(route, st)
    IN CASE fn = "tidal_login" -> <<"Authentication failed: ", err>>
         [] fn = "get_favorite_tracks" -> <<"Failed to retrieve tracks: ", err>>
         [] fn = "create_playlist_from_songs" /\ route = "batch_search" ->
               <<"Failed to search for songs: ", err>>
         [] fn = "create_playlist_from_songs" /\ route = "create_playlist" ->
               <<"Failed to create playlist: ", err>>
         [] fn = "_get_tidal_recommendations" ->
               <<"Failed to get recommendations: ", err>>
         [] fn = "create_tidal_playlist" -> <<"Failed to create playlist: ", err>>
         [] fn = "add_tracks_to_playlist" ->
               <<"Failed to add tracks to playlist: ", err>>
         [] fn = "get_user_playlists" -> <<"Failed to retrieve playlists: ", err>>
         [] fn = "get_playlist_tracks" ->
               <<"Failed to retrieve playlist tracks: ", err>>
         [] fn = "delete_tidal_playlist" -> <<"Failed to delete playlist: ", err>>
         [] OTHER -> <<err>>

\* what the function does with a 200 whose body is full, lacks what the
\* function looks for ("no match") or is empty
HandleOk(fn, route, payload) ==
    CASE fn \in {"tidal_login", "get_favorite_tracks", "delete_tidal_playlist",
                 "_get_tidal_recommendations"} -> FnPayload
      [] fn = "batch_search_tidal" ->
            IF payload = "empty"
            THEN FnError(<<"Empty response from batch search - Flask may have crashed">>)
            ELSE FnSuccess
      [] fn = "create_playlist_from_songs" /\ route = "batch_search" ->
            IF payload = "empty"
            THEN FnError(<<"Empty response from search - Flask may have crashed">>)
            ELSE IF payload = "no match"
            THEN FnError(<<"Could not find any matching tracks on TIDAL">>)
            ELSE FnContinue
      [] fn = "create_playlist_from_songs" /\ route = "create_playlist" ->
            IF payload = "empty"
            THEN FnError(<<"Empty response from playlist creation - Flask may have crashed">>)
            ELSE FnSuccess
      [] OTHER -> FnSuccess

\* what the function does with a response
HandleResponse(fn, route, st, payload) ==
    IF route = "download_status"
    THEN \* the status code is not looked at, only the body's 'installed'
         IF st = 200 /\ payload = "full"
         THEN FnContinue
         ELSE FnError(<<"tidal-dl-ng is not installed.">>)
    ELSE IF check_auth_error(fn, st) THEN FnError(<<AUTH_MESSAGE>>)
    ELSE IF st = 200 THEN HandleOk(fn, route, payload)
    ELSE IF st = 404 /\ ChecksNotFound(fn)
    THEN FnError(<<"Playlist with ID not found.">>)
    ELSE FnError(FailureMessage(fn, route, st))

\* what the function that sent the request makes of what the request met
FnResult(fn, route, o) ==
    IF o.kind = "response"
    THEN HandleResponse(fn, route, o.status, o.payload)
    ELSE HandleException(fn, o.kind)

\* recommend_tracks: what it makes of the result of the function it called
WrapRecommend(fn, r, o) ==
    IF r.raised THEN r
    ELSE IF fn = "get_favorite_tracks"
    THEN IF r.status = "error"
         THEN FnError(<<"Unable to get favorite tracks for recommendations: ">>
                      \o r.message)
         ELSE IF o.payload # "full"
         THEN FnError(<<"I couldn't find any favorite tracks in your TIDAL account">>)
         ELSE FnContinue
    ELSE IF r.status = "error"
         THEN FnError(<<"Unable to get recommendations: ">> \o r.message)
         ELSE IF o.payload # "full"
         THEN FnError(<<"I couldn't find any recommendations">>)
         ELSE FnSuccess

\* the tool's result after the request of step k met o
ToolStep(c, k, o) ==
    LET step == Plan(c)[k]
        r == FnResult(step.fn, step.route, o)
    IN IF c.tool = "recommend_tracks" THEN WrapRecommend(step.fn, r, o) ELSE r

\* the status codes a route answers with
RouteStatuses(route) ==
    CASE route \in AuthRoutes -> HandlerStatus(route) \cup {401}
      [] route = "login" -> {200, 401, 408, 500}
      [] route = "download_status" -> {200, 500}
      [] OTHER -> {200, 400, 500}

Payloads == {"full", "no match", "empty"}

\* what a request to the route can meet
RpcOutcomes(route) ==
    {[kind |-> k, status |-> 0, payload |-> "none"] : k \in TransportFailures}
    \cup {[kind |-> "response", status |-> 200, payload |-> p] : p \in Payloads}
    \cup {[kind |-> "response", status |-> st, payload |-> "error"] :
            st \in RouteStatuses(route) \ {200}}

\* the cap of batch_search_tidal ("if len(queries) > 100")
TOOL_MAX_BATCH_QUERIES == 100

\* the 'queries' argument of batch_search_tidal, by what its checks look at:
\* None, a value that is not a list, or a list of len items of which valid
\* are strings or dicts with a 'query'
NoQueries == [kind |-> "none", len |-> 0, valid |-> 0]

QueriesArguments ==
    {NoQueries, [kind |-> "not a list", len |-> 1, valid |-> 0]}
    \cup {[kind |-> "list", len |-> n, valid |-> v] :
            n \in {0, 1, TOOL_MAX_BATCH_QUERIES, TOOL_MAX_BATCH_QUERIES + 1},
            v \in {0, 1, TOOL_MAX_BATCH_QUERIES, TOOL_MAX_BATCH_QUERIES + 1}}

\* lines 285-302 of batch_search_tidal: the error the argument is refused
\* with before any request, or none
RefuseQueries(q) ==
    IF q.kind # "list" \/ q.len = 0
    THEN <<"queries must be a non-empty list">>
    ELSE IF q.len > TOOL_MAX_BATCH_QUERIES
    THEN <<"Maximum 100 queries per batch request">>
    ELSE IF q.valid = 0
    THEN <<"No valid queries provided">>
    ELSE <<>>

\* the arguments a tool call cannot have
WellFormedCall(c) ==
    /\ c.explicit_ids => c.tool = "recommend_tracks"
    /\ c.tool # "batch_search_tidal" => c.queries = NoQueries
    /\ c.queries.valid <= c.queries.len

ToolCalls == {[tool |-> t, explicit_ids |-> x, queries |-> q] :
                t \in Tools, x \in BOOLEAN, q \in QueriesArguments}

\* the client calls a tool; batch_search_tidal checks its argument first
CallTool(c, items) ==
    /\ tc_pc = "idle"
    /\ WellFormedCall(c)
    /\ tc_call' = c
    /\ tc_queries' = items
    /\ tc_step' = 1
    /\ tc_trace' = <<>>
    /\ IF c.tool = "batch_search_tidal" /\ RefuseQueries(c.queries) # <<>>
       THEN /\ tc_result' = FnError(RefuseQueries(c.queries))
            /\ tc_pc' = "done"
       ELSE /\ tc_result' = [status |-> "none", message |-> <<>>, raised |-> FALSE]
            /\ tc_pc' = "rpc"
    /\ UNCHANGED <<backendVars, handlerVars, supVars, lifeVars, stopVars>>

\* a tool call whose arguments are given by what the tool's checks look at
ToolCalled(c) == CallTool(c, <<>>)

\* the tool sends its next request and handles what the request meets
ToolRpc(o) ==
    /\ tc_pc = "rpc"
    /\ o \in RpcOutcomes(Plan(tc_call)[tc_step].route)
    /\ LET r == ToolStep(tc_call, tc_step, o)
       IN /\ tc_trace' = Append(tc_trace,
                                [route |-> Plan(tc_call)[tc_step].route, met |-> o])
          /\ IF r.status = "continue"
             THEN /\ tc_step' = tc_step + 1
                  /\ UNCHANGED <<tc_pc, tc_result>>
             ELSE /\ tc_result' = r
                  /\ tc_pc' = "done"
                  /\ UNCHANGED tc_step
    /\ UNCHANGED <<tc_call, tc_queries>>
    /\ UNCHANGED <<backendVars, handlerVars, supVars, lifeVars, stopVars>>

\* the result goes back to the client
ToolReturns ==
    /\ tc_pc = "done"
    /\ tc_pc' = "idle"
    /\ UNCHANGED <<tc_call, tc_queries, tc_step, tc_trace, tc_result>>
    /\ UNCHANGED <<backendVars, handlerVars, supVars, lifeVars, stopVars>>

AllOutcomes == UNION {RpcOutcomes(r) : r \in AuthRoutes \cup {"login"} \cup DownloadRoutes}

NextTools ==
    \/ \E c \in ToolCalls : ToolCalled(c)
    \/ \E o \in AllOutcomes : ToolRpc(o)
    \/ ToolReturns

\* a tool-server whose backend was started
InitTools ==
    /\ BackendStart /\ HandlersIdle
    /\ SupervisorStart /\ ToolServerStart

SpecTools == InitTools /\ [][NextTools]_vars

(***************************************************************************)
(* The cap on a batch: requests whose 'queries' list is as long as the cap *)
(* or one off it, sent to the backend by any client, and calls of          *)
(* batch_search_tidal.  For a whole request the streaming client either    *)
(* answers every search or fails every search.                             *)
(***************************************************************************)
CapLengths == {0, 1, MAX_BATCH_QUERIES - 1, MAX_BATCH_QUERIES, MAX_BATCH_QUERIES + 1}

\* a query that reaches the client's search, and one that does not
CapItems ==
    {[kind |-> "str", query |-> "a", type |-> Absent],
     [kind |-> "str", query |-> "", type |-> Absent]}

CapRequests ==
    {[kind |-> k, queries |-> [i \in 1..n |-> it], limit_given |-> FALSE, limit |-> 0] :
        k \in QueriesKinds, n \in CapLengths, it \in CapItems}

\* a client other than the tools sends the request
CapArrives(req) ==
    /\ tc_call.tool = "none"
    /\ BatchArrives(req)

\* one iteration of the loop, the client behaving as it did for the items
\* before
CapItem ==
    /\ BatchItem
    /\ \A k \in 1..Len(bs_outcomes') : bs_outcomes'[k] = bs_outcomes'[1]

BatchCalls == {c \in ToolCalls : c.tool = "batch_search_tidal"}

\* batch_search_tidal is called
CapToolCalled(c) ==
    /\ bs_pc = "idle"
    /\ ToolCalled(c)

NextCap ==
    \/ \E req \in CapRequests : CapArrives(req)
    \/ BatchValidate
    \/ CapItem
    \/ BatchRespond
    \/ \E c \in BatchCalls : CapToolCalled(c)
    \/ \E o \in RpcOutcomes("batch_search") : ToolRpc(o)
    \/ ToolReturns

SpecCap == InitBatch /\ [][NextCap]_vars

(***************************************************************************)
(* batch_search_tidal against the backend's batch_search(): the tool        *)
(* normalizes its 'queries' list, posts the normalized list, the handler    *)
(* answers it, and the tool returns the handler's body under "success".     *)
(***************************************************************************)
\* one pass of "for q in queries" (lines 292-299): what the item adds to
\* normalized_queries
NormalizeItem(q) ==
    IF q.kind = "str"
    THEN <<[kind |-> "dict", query |-> q.query, type |-> "track"]>>
    ELSE IF q.kind = "dict" /\ q.query # Absent /\ q.query # ""
    THEN <<[kind |-> "dict", query |-> q.query,
            type |-> IF q.type = Absent THEN "track" ELSE q.type]>>
    ELSE <<>>

\* normalized_queries after the loop
RECURSIVE normalized_queries(_)
normalized_queries(queries) ==
    IF queries = <<>> THEN <<>>
    ELSE NormalizeItem(Head(queries)) \o normalized_queries(Tail(queries))

\* the lists the client passes as 'queries'
QueryLists == UNION {[1..n -> QueryItems] : n \in 0..MaxQueries}

\* what the tool's checks look at in a list
QueriesArgument(items) ==
    [kind |-> "list", len |-> Len(items), valid |-> Len(normalized_queries(items))]

\* batch_search_tidal(queries, limit_per_query) is called: lines 285-302
BatchSearchTidal(items) ==
    /\ bs_pc = "idle"
    /\ CallTool([tool |-> "batch_search_tidal", explicit_ids |-> FALSE,
                 queries |-> QueriesArgument(items)], items)

\* the values of limit_per_query the client passes
ToolLimits == {0, DEFAULT_LIMIT_PER_QUERY, MAX_LIMIT_PER_QUERY + 1}

\* http_session.post(.../api/search/batch, json={...}) reaches the handler
BatchPost(l) ==
    /\ tc_pc = "rpc"
    /\ tc_call.tool = "batch_search_tidal"
    /\ BatchArrives([kind |-> "list", queries |-> normalized_queries(tc_queries),
                     limit_given |-> TRUE, limit |-> ClampLimitPerQuery(l)])

\* the handler's response comes back and the tool handles it
BatchAnswered ==
    /\ bs_pc = "done"
    /\ ToolRpc([kind |-> "response", status |-> bs_response.status,
                payload |-> IF bs_response.status = 200 THEN "full" ELSE "error"])

\* the request fails in transport instead
BatchFails(k) ==
    /\ tc_call.tool = "batch_search_tidal"
    /\ ToolRpc([kind |-> k, status |-> 0, payload |-> "none"])

NextToolBatch ==
    \/ \E items \in QueryLists : BatchSearchTidal(items)
    \/ \E l \in ToolLimits : BatchPost(l)
    \/ BatchValidate
    \/ BatchItem
    \/ BatchRespond
    \/ BatchAnswered
    \/ \E k \in TransportFailures : BatchFails(k)
    \/ ToolReturns

SpecToolBatch == InitBatch /\ [][NextToolBatch]_vars

(***************************************************************************)
(* The life of the tool-server process: the top level of server.py runs    *)
(* start_flask_app(), then registers shutdown_flask_app with atexit; the   *)
(* tools are defined, and served, after that.  When the interpreter exits  *)
(* it runs the registered exit hooks.                                      *)
(***************************************************************************)
\* mutant: the top level goes on after a failed start
StartPropagates_Swallowed(err) == FALSE

\* start_flask_app() is called outside any try: what it raises leaves the
\* module's top level
StartPropagates(err) == err.kind # "none"

\* line 31 ends: by returning, and line 34 registers the hook, or by raising,
\* which ends the import and the process
StartEnds ==
    /\ ts_pc = "import"
    /\ sup_pc \in Ended
    /\ IF StartPropagates(sup_error)
       THEN /\ startup_exception' = TRUE
            /\ ts_pc' = "exit_hooks"
            /\ UNCHANGED hook_registered
       ELSE /\ hook_registered' = TRUE
            /\ ts_pc' = "serving"
            /\ UNCHANGED startup_exception
    /\ UNCHANGED <<supVars, stopVars, toolVars>>
    /\ UNCHANGED <<backendVars, handlerVars>>

\* the tool calls the clients of this specification make
ServedCalls == {c \in ToolCalls : c.tool \in {"get_user_playlists", "download_track"}}

\* the running server takes a tool call
ServeToolCall(c) == ts_pc = "serving" /\ ToolCalled(c)

\* the tool called sends its next request
ServeToolRpc(o) == ts_pc = "serving" /\ ToolRpc(o)

\* the tool called returns to the client
ServeToolReturns == ts_pc = "serving" /\ ToolReturns

\* the server ends: the interpreter begins its exit
ServerExit ==
    /\ ts_pc = "serving"
    /\ ts_pc' = "exit_hooks"
    /\ UNCHANGED <<hook_registered, startup_exception>>
    /\ UNCHANGED <<supVars, stopVars, toolVars>>
    /\ UNCHANGED <<backendVars, handlerVars>>

\* atexit runs what was registered: shutdown_flask_app(), or nothing
RunExitHooks ==
    /\ ts_pc = "exit_hooks"
    /\ sd_pc = "idle"
    /\ IF hook_registered
       THEN /\ sd_calls = 0
            /\ ShutdownEnter
            /\ UNCHANGED ts_pc
       ELSE /\ ts_pc' = "gone"
            /\ UNCHANGED stopVars
    /\ UNCHANGED <<hook_registered, startup_exception>>
    /\ UNCHANGED <<supVars, toolVars>>
    /\ UNCHANGED <<backendVars, handlerVars>>

NextLife ==
    \/ Launch
    \/ WhileTest
    \/ CheckAlive
    \/ \E d \in 0..PROBE_TIMEOUT : Probe(d)
    \/ Sleep
    \/ AfterLoop
    \/ ChildListens
    \/ \E code \in ExitCodes \cup {SIGTERM_CODE, SIGKILL_CODE} : ChildExits(code)
    \/ StartEnds
    \/ \E c \in ServedCalls : ServeToolCall(c)
    \/ \E o \in AllOutcomes : ServeToolRpc(o)
    \/ ServeToolReturns
    \/ ServerExit
    \/ RunExitHooks
    \/ ShutdownTerminate
    \/ ShutdownWait
    \/ ShutdownKill
    \/ ShutdownReturn

SpecLife == InitSup /\ [][NextLife]_vars

(***************************************************************************)
(* C1. Session cache TTL: once get_or_create_session() has validated a     *)
(* session at time t0, every later call at a time t with t - t0 < 300      *)
(* returns that same session without calling the validation hook, whatever *)
(* has become of the credential file; a call at t - t0 >= 300 calls the    *)
(* validation hook when the credential file exists.                        *)
(* call[t].pre is the last successful validation before the call.          *)
(***************************************************************************)
C1_SessionCacheTTL ==
    \A t \in Threads :
        (call[t].made /\ call[t].pre.session # None) =>
            IF call[t].time - call[t].pre.at < SESSION_CACHE_TTL
            THEN /\ call[t].ret = call[t].pre.session
                 /\ ~call[t].validation
            ELSE FileExists(call[t].cred) => call[t].validation

\* a call strictly after t0 and within the TTL, made while the credential
\* file is gone, that returned the validated session
C1_Witness ==
    \E t \in Threads :
        /\ call[t].made
        /\ call[t].pre.session # None
        /\ call[t].time > call[t].pre.at
        /\ call[t].time - call[t].pre.at < SESSION_CACHE_TTL
        /\ call[t].cred = "missing"
        /\ call[t].ret = call[t].pre.session

(***************************************************************************)
(* C2. Session cache invalidation: the get_or_create_session() call that   *)
(* immediately follows invalidate_session_cache() is never a cache hit and *)
(* never returns the session the invalidation dropped, even within the TTL *)
(* of the last validation; it takes the load-and-validate path: the        *)
(* validation hook is called exactly when the credential file exists.      *)
(***************************************************************************)
C2_InvalidateForcesRevalidation ==
    \A t \in Threads :
        (call[t].made /\ call[t].after_invalidate) =>
            /\ ~call[t].hit
            /\ call[t].dropped # None => call[t].ret # call[t].dropped
            /\ call[t].validation <=> FileExists(call[t].cred)
            /\ call[t].ret # None => call[t].validation

\* a session was cached, then invalidated, and the following call, still
\* within the TTL of the last validation, validated a new session
C2_Witness ==
    \E t \in Threads :
        /\ call[t].made
        /\ call[t].after_invalidate
        /\ call[t].dropped # None
        /\ call[t].dropped = call[t].pre.session
        /\ call[t].time - call[t].pre.at < SESSION_CACHE_TTL
        /\ call[t].validation
        /\ call[t].ret # None

(***************************************************************************)
(* C3. get_or_create_session() never raises.  When the cache entry is      *)
(* absent or stale and the credential file is missing, or validation       *)
(* throws or returns false, the call leaves no cached session and returns  *)
(* None; when validation succeeds the call caches the new session with the *)
(* time of the call and returns it.                                        *)
(***************************************************************************)
AbsentOrStale(c) ==
    \/ c.before.cached = None
    \/ c.time - c.before.last >= SESSION_CACHE_TTL

C3_NeverRaises ==
    \A t \in Threads :
        /\ pc[t] # "raised"
        /\ (call[t].made /\ AbsentOrStale(call[t])) =>
              /\ ~call[t].raised
              /\ IF FileExists(call[t].cred)
                    /\ login_session_file_auto(call[t].cred) = "true"
                 THEN /\ call[t].ret # None
                      /\ call[t].ret # call[t].before.cached
                      /\ call[t].after = [cached |-> call[t].ret,
                                          last |-> call[t].time]
                 ELSE /\ call[t].ret = None
                      /\ call[t].after.cached = None

\* a stale entry whose revalidation threw: the entry was dropped and the
\* call returned None
C3_Witness ==
    \E t \in Threads :
        /\ call[t].made
        /\ call[t].before.cached # None
        /\ AbsentOrStale(call[t])
        /\ call[t].cred = "corrupt"
        /\ call[t].ret = None
        /\ call[t].after.cached = None
        /\ pc[t] = "session"

(***************************************************************************)
(* C4. Auth gating: on every @requires_tidal_auth route, when              *)
(* get_or_create_session() yields no session the response is 401 "Not      *)
(* authenticated" and the route's body does not run; the body runs only    *)
(* with the session that this request's get_or_create_session() returned,  *)
(* and never answers 401 itself.                                           *)
(***************************************************************************)
C4_AuthGating ==
    \A t \in Threads :
        (op[t] \in AuthRoutes /\ resp[t].status # 0) =>
            /\ call[t].made
            /\ call[t].ret = None =>
                  /\ resp[t].status = 401
                  /\ resp[t].body = "Not authenticated"
                  /\ ~resp[t].handler
            /\ resp[t].handler =>
                  /\ call[t].ret # None
                  /\ resp[t].session = call[t].ret
                  /\ resp[t].status # 401

\* an auth-required route answered 401 without running its body
C4_Witness ==
    \E t \in Threads :
        /\ op[t] \in AuthRoutes
        /\ call[t].made
        /\ call[t].ret = None
        /\ resp[t].status = 401
        /\ ~resp[t].handler

(***************************************************************************)
(* C5. Batch search preserves input order: an accepted batch of N items    *)
(* answers with exactly N results and total = N, and the i-th result is    *)
(* the result, or the error record, of the i-th item: it carries the i-th  *)
(* item's query text, and its hits are those of that item's search.        *)
(***************************************************************************)
C5_BatchOrder ==
    (bs_pc = "done" /\ bs_response.status = 200) =>
        LET qs == bs_request.queries
            rs == bs_response.results
        IN /\ Len(rs) = Len(qs)
           /\ bs_response.total = Len(qs)
           /\ \A i \in 1..Len(qs) :
                 /\ i <= Len(rs) => rs[i].query = QueryText(qs[i])
                 /\ (i <= Len(rs) /\ rs[i].error = Absent) =>
                       /\ rs[i].type = SearchType(qs[i])
                       /\ rs[i].hits = <<QueryText(qs[i]),
                                         SearchModels(SearchType(qs[i])), bs_limit>>
                       /\ bs_outcomes[i] = "ok"

\* three items with three different query texts, the middle one failing
C5_Witness ==
    /\ bs_pc = "done"
    /\ bs_response.status = 200
    /\ Len(bs_request.queries) = 3
    /\ bs_response.total = 3
    /\ bs_response.results[1].query = "a"
    /\ bs_response.results[2].query = "b"
    /\ bs_response.results[3].query = "7"
    /\ bs_response.results[2].error # Absent

(***************************************************************************)
(* C6. Batch search isolates failures: an item whose query text is empty   *)
(* or whose search throws gets a record with an error field in its own     *)
(* slot; every other item is still searched and gets its normal result;    *)
(* and the batch answers 200.                                              *)
(***************************************************************************)
ItemFails(i) ==
    \/ QueryText(bs_request.queries[i]) = ""
    \/ bs_outcomes[i] = "raise"
    \/ SearchType(bs_request.queries[i]) = NotAString

C6_BatchIsolation ==
    (bs_pc = "done" /\ bs_request.kind = "list"
        /\ Len(bs_request.queries) \in 1..MAX_BATCH_QUERIES) =>
       /\ bs_response.status = 200
       /\ Len(bs_outcomes) = Len(bs_request.queries)
       /\ Len(bs_response.results) = Len(bs_request.queries)
       /\ \A i \in 1..Len(bs_request.queries) :
             i <= Len(bs_response.results) =>
                IF ItemFails(i)
                THEN bs_response.results[i].error # Absent
                ELSE /\ bs_response.results[i].error = Absent
                     /\ bs_outcomes[i] = "ok"
                     /\ bs_response.results[i].hits # <<>>

\* item 2 of 3 threw in the client; items 1 and 3 have their results
C6_Witness ==
    /\ bs_pc = "done"
    /\ Len(bs_request.queries) = 3
    /\ bs_outcomes = <<"ok", "raise", "ok">>
    /\ bs_response.status = 200
    /\ bs_response.results[1].error = Absent
    /\ bs_response.results[2].error # Absent
    /\ bs_response.results[3].error = Absent

(***************************************************************************)
(* C7. Recommendation dedup: whatever the seeds and the order in which     *)
(* their workers are merged, with remove_duplicates every track id is in   *)
(* the output at most once (exactly once when some seed's radio produced   *)
(* it), and the entry kept is the one of the earliest-merged worker that   *)
(* produced it; without remove_duplicates a track id is in the output once *)
(* for every time a seed's radio produced it: once per seed that produced  *)
(* it, when no radio names a track twice.                                  *)
(***************************************************************************)
TrackIds == UNION {{r[k] : k \in 1..Len(r)} : r \in RadioResults}

\* the workers whose radio produced the id
Producers(id) ==
    {w \in DOMAIN rec_future :
        \E k \in 1..Len(rec_future[w].outcome.tracks) :
            rec_future[w].outcome.tracks[k] = id}

\* the position at which as_completed yielded worker w
MergePosition(w) == CHOOSE k \in 1..Len(rec_merged) : rec_merged[k] = w

\* the producer of the id that was merged first
FirstMerged(id) ==
    CHOOSE w \in Producers(id) :
        \A v \in Producers(id) : MergePosition(w) <= MergePosition(v)

Occurrences(id, out) == {i \in 1..Len(out) : out[i].id = id}

\* the entries of the workers' radio results that name the id
Productions(id) ==
    UNION {{<<w, k>> : k \in {j \in 1..Len(rec_future[w].outcome.tracks) :
                                  rec_future[w].outcome.tracks[j] = id}} :
           w \in DOMAIN rec_future}

FailedWorkers == {w \in DOMAIN rec_future : rec_future[w].outcome.raised}

C8_SeedFailureIsolation ==
    /\ \A w \in FailedWorkers :
          rec_future[w].state # "running" =>
             /\ ~rec_future[w].raised
             /\ rec_future[w].tracks = <<>>
    /\ (rec_pc = "done" /\ FailedWorkers # {}) =>
          LET out == rec_response.recommendations
          IN /\ rec_response.status = 200
             /\ \A w \in DOMAIN rec_future : rec_future[w].state = "merged"
             /\ \A w \in DOMAIN rec_future \ FailedWorkers :
                   \A k \in 1..Len(rec_future[w].outcome.tracks) :
                      IF rec_request.remove_duplicates
                      THEN Occurrences(rec_future[w].outcome.tracks[k], out) # {}
                      ELSE \E i \in 1..Len(out) :
                              out[i] = [id |-> rec_future[w].outcome.tracks[k],
                                        source_track_id |-> rec_request.track_ids[w]]

\* the worker of seed 1 threw, the worker of seed 2 produced two tracks,
\* and the output is those two tracks
C8_Witness ==
    /\ rec_pc = "done"
    /\ rec_response.status = 200
    /\ rec_request.track_ids = <<1, 2>>
    /\ FailedWorkers = {1}
    /\ rec_future[2].outcome.tracks = <<10, 11>>
    /\ rec_response.recommendations
          = <<[id |-> 10, source_track_id |-> 2], [id |-> 11, source_track_id |-> 2]>>

(***************************************************************************)
(* C9. Supervisor start trichotomy: start_flask_app() ends in exactly one  *)
(* of three ways: it returns because a probe's connection was accepted, it *)
(* raises because a liveness check saw the child exited, or it raises      *)
(* because the loop test found the 30 s timeout elapsed.  It never returns *)
(* without an accepted connection, both failures are raised errors, and    *)
(* the loop body runs only while none of the three has happened.           *)
(***************************************************************************)
SawAccept == accepted
SawExit == returncode.set
SawTimeout == loop_time >= StartupTimeout

OnePollingInterval == POLL_SLEEP + PROBE_TIMEOUT

C10_FailFast ==
    /\ checks_after_exit > 0 => sup_pc = "raised_exit"
    /\ sup_pc = "raised_exit" =>
          /\ sup_error = [kind |-> "exit", code |-> child_code]
          /\ exit_unaccepted
          /\ loop_time < StartupTimeout
          /\ elapsed - exit_at <= OnePollingInterval
    /\ (exit_unaccepted /\ sup_pc \notin Ended) =>
          elapsed - exit_at <= OnePollingInterval
    /\ (exit_unaccepted /\ sup_pc = "raised_timeout") =>
          /\ loop_time >= StartupTimeout
          /\ loop_time - exit_at <= OnePollingInterval
    /\ (exit_unaccepted /\ sup_pc = "returned") =>
          /\ accepted
          /\ elapsed - exit_at <= PROBE_TIMEOUT

\* the child exited with status 1 in the middle of the polling, and the
\* start raised with that status well before the timeout
C10_Witness ==
    /\ sup_pc = "raised_exit"
    /\ exit_unaccepted
    /\ exit_at > 0
    /\ sup_error = [kind |-> "exit", code |-> 1]
    /\ elapsed < StartupTimeout - OnePollingInterval

\* C10 without its two exceptions: whenever the child exited before the
\* port accepted a connection, the start ends by raising from the liveness
\* check with the child's exit code, within about one polling interval
C10_Original ==
    (sup_pc \in Ended /\ exit_unaccepted) =>
        /\ sup_pc = "raised_exit"
        /\ sup_error = [kind |-> "exit", code |-> child_code]
        /\ elapsed - exit_at <= OnePollingInterval

(***************************************************************************)
(* C11. Idempotent shutdown: when shutdown_flask_app() is called twice in  *)
(* a row on a launched child, the second call sends the child no signal.   *)
(* (No call raises: terminate(), wait() and kill() have no raising path    *)
(* here, TimeoutExpired being caught.)                                     *)
(***************************************************************************)
C11_IdempotentShutdown ==
    \A k \in 2..Len(sd_sent) :
        sd_sent[k - 1].process => sd_sent[k].signals = <<>>

(***************************************************************************)
(* C12. Bound enforcement: bound_limit(limit, max_n) is in [1, max_n] for  *)
(* every integer limit: 1 below 1, max_n above max_n, limit itself         *)
(* otherwise.  So get_tracks uses 50 for limit=1000 and 1 for limit=0,     *)
(* search never uses more than 300, get_playlist_tracks never more than    *)
(* 500 and never a negative offset, and batch_search uses a                *)
(* limit_per_query in [1, 20].                                             *)
(***************************************************************************)
C12_BoundEnforcement ==
    bl_pc = "done" =>
        LET r == bl_request.route
            arg == LimitArgument(bl_request)
        IN /\ bl_limit \in 1..LimitMax(r)
           /\ arg < 1 => bl_limit = 1
           /\ arg > LimitMax(r) => bl_limit = LimitMax(r)
           /\ arg \in 1..LimitMax(r) => bl_limit = arg
           /\ (r = "get_tracks" /\ arg = 1000) => bl_limit = 50
           /\ (r = "get_tracks" /\ arg = 0) => bl_limit = 1
           /\ r = "search" => bl_limit <= 300
           /\ r = "get_playlist_tracks" =>
                 /\ bl_limit <= 500
                 /\ bl_offset >= 0
                 /\ bl_request.offset >= 0 => bl_offset = bl_request.offset
           /\ r = "batch_search" => bl_limit \in 1..20

\* get_tracks was asked for 1000 tracks and uses 50
C12_Witness ==
    /\ bl_pc = "done"
    /\ bl_request.route = "get_tracks"
    /\ bl_request.limit_given
    /\ bl_request.limit = 1000
    /\ bl_limit = 50

\* what the last request of the tool call met
LastMet == tc_trace[Len(tc_trace)]

\* the texts a message is concatenated from
Pieces(msg) == {msg[k] : k \in 1..Len(msg)}

\* a timeout and a refused connection
IsTimeout(kind) == kind \in {"ReadTimeout", "ConnectTimeout"}
IsRefused(kind) == kind = "ConnectionRefused"

(***************************************************************************)
(* C13. Transport errors at the tool-server: whenever a request of a tool  *)
(* times out or its connection is refused, the tool returns a result of    *)
(* status 'error' with a message, the exception does not leave the tool,   *)
(* and the message for a timeout differs from the message the same request *)
(* gets for a refused connection.                                          *)
(***************************************************************************)
C13_TransportErrors ==
    /\ \A k \in 1..(Len(tc_trace) - 1) : tc_trace[k].met.kind = "response"
    /\ (tc_trace # <<>> /\ LastMet.met.kind \in TransportFailures) =>
          /\ tc_pc \in {"done", "idle"}
          /\ ~tc_result.raised
          /\ tc_result.status = "error"
          /\ tc_result.message # <<>>
          /\ \A other \in TransportFailures :
                (IsTimeout(LastMet.met.kind) # IsTimeout(other)) =>
                    LET r == ToolStep(tc_call, tc_step,
                                      [kind |-> other, status |-> 0, payload |-> "none"])
                    IN /\ ~r.raised
                       /\ r.status = "error"
                       /\ r.message # tc_result.message

\* a download tool, past its status check, met a refused connection
C13_Witness ==
    /\ tc_pc = "done"
    /\ tc_call.tool = "download_track"
    /\ Len(tc_trace) = 2
    /\ LastMet.met.kind = "ConnectionRefused"
    /\ tc_result.status = "error"

(***************************************************************************)
(* C14. Not-authenticated is not conflated with generic failure: whenever  *)
(* a request of a tool to an auth-required route is answered with 401      *)
(* (recommend_tracks with explicit track_ids included), the tool's result  *)
(* carries the "Not authenticated with TIDAL. Please login first" message  *)
(* and no "Failed to ..." text.                                            *)
(***************************************************************************)
C14_NotAuthenticatedDistinct ==
    (/\ tc_pc = "done"
     /\ tc_trace # <<>>
     /\ LastMet.route \in AuthRoutes
     /\ LastMet.met.kind = "response"
     /\ LastMet.met.status = 401) =>
        /\ tc_result.status = "error"
        /\ AUTH_MESSAGE \in Pieces(tc_result.message)
        /\ FailureMessage(Plan(tc_call)[tc_step].fn, LastMet.route, 401)[1]
              \notin Pieces(tc_result.message)

(***************************************************************************)
(* C15. Startup ordering: a tool call is served, and so a tool's request   *)
(* is sent to the backend, only after start_flask_app() has returned; when *)
(* start_flask_app() raises, the tool-server ends with a startup exception *)
(* and serves no tool call.                                                *)
(***************************************************************************)
C15_StartupOrdering ==
    /\ (tc_pc # "idle" \/ tc_trace # <<>>) =>
          /\ sup_pc = "returned"
          /\ flask_ready
          /\ ~startup_exception
    /\ (sup_pc \in {"raised_exit", "raised_timeout"} /\ ts_pc # "import") =>
          /\ startup_exception
          /\ ts_pc \in {"exit_hooks", "gone"}
          /\ tc_pc = "idle" /\ tc_trace = <<>>

\* a tool sent a request after the start returned; and a failed start ended
\* the tool-server
C15_Witness == ts_pc = "serving" /\ tc_trace # <<>> /\ sup_pc = "returned"
C15_WitnessFailed == ts_pc = "gone" /\ startup_exception /\ sup_pc = "raised_timeout"

(***************************************************************************)
(* C16. Teardown on exit: once the child was launched, the tool-server is  *)
(* gone only after the shutdown hook ran, and it leaves no running child   *)
(* behind: the child has exited or was sent SIGKILL.                       *)
(***************************************************************************)
C16_TeardownOnExit ==
    (ts_pc = "gone" /\ HasProcess(child)) =>
        /\ sd_calls > 0
        /\ child = "exited" \/ Sent("SIGKILL")

\* thread t has an auth-status request past its get_or_create_session() call
AuthStatusServed(t) == op[t] = "auth_status" /\ pc[t] \in {"session", "done"}

\* the cache entry the call of thread t found was fresh
FoundFresh(t) ==
    /\ call[t].before.cached # None
    /\ call[t].time - call[t].before.last < SESSION_CACHE_TTL

(***************************************************************************)
(* C17 (as stated). The auth-status operation has no side effect on the    *)
(* session cache: whatever the cache held (nothing, a fresh or a stale     *)
(* session) and whatever the credential file, the cache entry is the same  *)
(* after the request as before it.                                         *)
(***************************************************************************)
C17_AuthStatusNoSideEffect ==
    \A t \in RouteThreads :
        AuthStatusServed(t) =>
            /\ call[t].after = call[t].before
            /\ cached_session = call[t].before.cached
            /\ session_last_validated = call[t].before.last

(***************************************************************************)
(* C17 (amended). The auth-status operation touches the session cache only *)
(* as get_or_create_session() does: a fresh entry is left as it is; an     *)
(* empty or stale entry is replaced by a newly validated session stamped   *)
(* with the time of the request when the credential file validates, and    *)
(* otherwise the cached session is cleared and the timestamp kept.         *)
(***************************************************************************)
C17_AuthStatusThroughCache ==
    \A t \in RouteThreads :
        AuthStatusServed(t) =>
            LET b == call[t].before
                a == call[t].after
            IN /\ cached_session = a.cached
               /\ session_last_validated = a.last
               /\ FoundFresh(t) => a = b
               /\ (~FoundFresh(t) /\ call[t].cred = "valid") =>
                     /\ a.cached \notin {None, b.cached}
                     /\ a.last = call[t].time
               /\ (~FoundFresh(t) /\ call[t].cred # "valid") =>
                     a = [cached |-> None, last |-> b.last]

\* an auth-status request found a stale session and revalidated it
C17_Witness ==
    \E t \in RouteThreads :
        /\ AuthStatusServed(t)
        /\ pc[t] = "done"
        /\ call[t].before.cached # None
        /\ ~FoundFresh(t)
        /\ call[t].after.cached # None

\* a 'queries' value the backend must refuse
BadQueries(req) ==
    req.kind # "list" \/ Len(req.queries) = 0 \/ Len(req.queries) > 100

\* a 'queries' argument the tool must refuse
BadArgument(q) == q.kind # "list" \/ q.len = 0 \/ q.len > 100

(***************************************************************************)
(* C18. Batch search cap: a request whose queries are missing, not a list, *)
(* empty or more than 100 is refused, with 400 by the backend and with     *)
(* status 'error' by the tool, and none of its queries is executed (the    *)
(* backend runs no item, the tool sends no request); a list of exactly 100 *)
(* items passes the cap: the backend answers 200 with 100 results, the     *)
(* tool sends its request when any item is a valid query.                  *)
(***************************************************************************)
C18_BatchCap ==
    /\ bs_pc \in {"loop", "done"} =>
          IF BadQueries(bs_request)
          THEN /\ bs_pc = "done"
               /\ bs_response.status = 400
               /\ bs_i = 0 /\ bs_outcomes = <<>> /\ bs_results = <<>>
          ELSE /\ bs_response.status # 400
               /\ bs_pc = "done" =>
                     /\ bs_response.status = 200
                     /\ bs_response.total = Len(bs_request.queries)
                     /\ Len(bs_outcomes) = Len(bs_request.queries)
    /\ tc_call.tool = "batch_search_tidal" =>
          IF BadArgument(tc_call.queries)
          THEN /\ tc_pc \in {"done", "idle"}
               /\ tc_result.status = "error"
               /\ tc_trace = <<>>
          ELSE tc_call.queries.valid > 0 => (tc_pc = "rpc" \/ tc_trace # <<>>)

\* the backend accepted a list of exactly 100 queries and ran them all
C18_Witness ==
    /\ bs_pc = "done"
    /\ Len(bs_request.queries) = 100
    /\ bs_response.status = 200
    /\ bs_outcomes[100] = "ok"

\* the threads inside the critical section of _session_lock
InCriticalSection == {t \in Threads : pc[t] = "locked"}

(***************************************************************************)
(* C19. Session cache mutual exclusion: under every interleaving of        *)
(* threads calling get_or_create_session() and invalidate_session_cache(), *)
(* at most one thread is inside the critical section, and it holds the     *)
(* lock; and the cached session a call finds comes paired with the         *)
(* timestamp of the update that cached it.                                 *)
(***************************************************************************)
C19_MutualExclusion ==
    /\ Cardinality(InCriticalSection) <= 1
    /\ \A t \in Threads : pc[t] = "locked" <=> session_lock = t
    /\ \A t \in Threads :
          (call[t].made /\ call[t].before.cached # None) =>
              /\ call[t].before.cached = call[t].pre.session
              /\ call[t].before.last = call[t].pre.at

\* one thread is inside the critical section while the other waits for the
\* lock
C19_Witness ==
    \E t \in Threads, u \in Threads :
        /\ t # u
        /\ pc[t] = "locked"
        /\ pc[u] = "lock"
        /\ cached_session # None

\* the step leaves the timestamp alone, or sets the cached session with it
TimestampStep ==
    session_last_validated' # session_last_validated =>
        \/ /\ cached_session' \notin {None, cached_session}
           /\ session_last_validated' = clock
           /\ validated' = [session |-> cached_session', at |-> clock]
        \/ /\ cached_session' = None
           /\ session_last_validated' = 0

\* a cached session carries the time of its validation
TimestampOfValidation ==
    cached_session # None =>
        /\ validated.session = cached_session
        /\ session_last_validated = validated.at

(***************************************************************************)
(* C20. Timestamp invariant: the last-validated timestamp changes only in  *)
(* a step that also sets the cached session, to a newly validated session  *)
(* (the timestamp becoming the time of the validation) or to absent (the   *)
(* timestamp becoming 0); so whenever a session is cached, the timestamp   *)
(* is the time at which that session was validated.                        *)
(***************************************************************************)
C20_TimestampInvariant == []TimestampOfValidation /\ [][TimestampStep]_vars

\* a session validated after an invalidation is cached with its own time
C20_Witness ==
    /\ cached_session # None
    /\ session_last_validated = validated.at
    /\ session_last_validated > StartTime
    /\ \E t \in Threads : call[t].made /\ call[t].after_invalidate

\* in this step thread t's route, handed the cached session, makes its call
\* on the streaming client while the service rejects the session's
\* credentials, and the call fails
RevealsInvalidSession(t) ==
    /\ pc[t] = "session" /\ pc'[t] = "done"
    /\ op[t] \in AuthRoutes
    /\ cred # "valid"
    /\ resp'[t].handler
    /\ resp'[t].status = 500
    /\ resp'[t].session = cached_session

(***************************************************************************)
(* C21. Invalidation on downstream failure: when a route's call revealed   *)
(* that the cached session is no longer valid, the route leaves the cache  *)
(* invalidated, so that the next get_or_create_session() revalidates       *)
(* instead of returning the same session for the rest of its TTL.          *)
(***************************************************************************)
C21_InvalidationOnFailure ==
    [][\A t \in RouteThreads :
          RevealsInvalidSession(t) => cached_session' = None]_vars

\* the locks get_batch_recommendations() creates or takes around its
\* accumulator: the handler has none
AccumulatorLocks == {}

\* the step changes the accumulator
AccumulatorChanges ==
    \/ all_recommendations' # all_recommendations
    \/ seen_track_ids' # seen_track_ids

\* the step is the request thread taking future w from as_completed; every
\* other future is as it was
RequestThreadMerges(w) ==
    /\ rec_pc = "pool"
    /\ rec_future[w].state = "finished"
    /\ rec_future' = [rec_future EXCEPT ![w].state = "merged"]
    /\ rec_merged' = Append(rec_merged, w)

\* the step is a worker finishing
WorkerFinishes ==
    \E w \in DOMAIN rec_future :
        /\ w \in DOMAIN rec_future'
        /\ rec_future[w].state = "running"
        /\ rec_future'[w].state = "finished"

(***************************************************************************)
(* C22 (as stated). Recommendation accumulator discipline: every insertion *)
(* into the accumulator (seen_track_ids and all_recommendations) is made   *)
(* while the accumulator's lock is held.                                   *)
(***************************************************************************)
C22_UnderLock ==
    [][AccumulatorChanges => \E l \in AccumulatorLocks : TRUE]_vars

(***************************************************************************)
(* C22 (amended). The accumulator has no lock and needs none: every        *)
(* insertion is made by the request thread, in its loop over as_completed, *)
(* for one finished future at a time; a worker's step never changes        *)
(* seen_track_ids or all_recommendations, so no two workers ever mutate    *)
(* them at the same time.                                                  *)
(***************************************************************************)
C22_SingleWriter ==
    [][/\ AccumulatorChanges => \E w \in DOMAIN rec_future : RequestThreadMerges(w)
       /\ WorkerFinishes => ~AccumulatorChanges]_vars

\* the request thread has merged one worker's tracks while the other
\* worker is still running
C22_Witness ==
    /\ rec_pc = "pool"
    /\ Len(rec_future) = 2
    /\ Len(rec_merged) = 1
    /\ all_recommendations # <<>>
    /\ \E w \in DOMAIN rec_future : rec_future[w].state = "running"

\* ThreadPoolExecutor(max_workers=len(track_ids))
max_workers(track_ids) == Len(track_ids)

\* the workers running at the same time
RunningWorkers == {w \in DOMAIN rec_future : rec_future[w].state = "running"}

\* the ceilings that a request of the model has more seeds than
PoolCeilings == 1..(MaxSeeds - 1)

(***************************************************************************)
(* C23. Bounded worker pool: the number of workers of a request that run   *)
(* at the same time never exceeds a fixed ceiling that does not depend on  *)
(* the number of seeds: for a ceiling that some request exceeds in seeds,  *)
(* the workers still stay within it.                                       *)
(***************************************************************************)
C23_BoundedPool ==
    \E ceiling \in PoolCeilings :
        /\ Cardinality(RunningWorkers) <= ceiling
        /\ rec_pc = "pool" => max_workers(rec_request.track_ids) <= ceiling

(***************************************************************************)
(* C24. Startup timeout teardown: when start_flask_app() has raised its    *)
(* timeout error, the child is eventually no longer running, whether or    *)
(* not it reacts to the graceful termination signal.                       *)
(***************************************************************************)
C24_TimeoutTeardown == (sup_pc = "raised_timeout") ~> (child # "running")

\* what each call of shutdown_flask_app() may send, in order
EscalationOrder ==
    \A k \in 1..Len(sd_sent) :
        /\ sd_sent[k].signals \in {<<>>, <<"SIGTERM">>, <<"SIGTERM", "SIGKILL">>}
        /\ ~sd_sent[k].process => sd_sent[k].signals = <<>>

\* the call that is past terminate() on a child it found running has sent
\* the graceful signal, and nothing else before the wait is over
GracefulFirst ==
    /\ (sd_pc \in {"wait", "kill"} /\ ~returncode.set) =>
          sd_sent[sd_calls].signals = <<"SIGTERM">>
    /\ (sd_pc \in {"wait", "kill"} /\ returncode.set) =>
          "SIGKILL" \notin {sd_sent[sd_calls].signals[i] :
                              i \in 1..Len(sd_sent[sd_calls].signals)}

\* a step that sends SIGKILL is the kill() after the wait timed out, on a
\* child that has not exited
KillOnlyAfterGrace ==
    signals' = Append(signals, "SIGKILL") =>
        /\ sd_pc = "kill"
        /\ child = "running"
        /\ sd_sent[sd_calls].signals = <<"SIGTERM">>

(***************************************************************************)
(* C25. Shutdown escalation: shutdown_flask_app() on a running child sends *)
(* SIGTERM first, waits for the grace period, and sends SIGKILL only when  *)
(* the child has not exited by then; SIGKILL never comes before SIGTERM    *)
(* and never goes to a child that exited in time; with no child launched   *)
(* the call sends nothing.                                                 *)
(***************************************************************************)
C25_ShutdownEscalation ==
    /\ [](EscalationOrder /\ GracefulFirst)
    /\ [][KillOnlyAfterGrace]_vars

\* a call escalated: SIGTERM, then SIGKILL
C25_Witness ==
    \E k \in 1..Len(sd_sent) : sd_sent[k].signals = <<"SIGTERM", "SIGKILL">>

\* threads t and u are both inside calls of get_or_create_session() that
\* overlap: neither has returned to its caller; t found the cache empty or
\* stale and validated with success, and u, whose credential file was valid
\* too, came to the cache next, finding it as t left it
Contended(t, u) ==
    /\ t # u
    /\ op[t] = "get_or_create_session" /\ pc[t] = "session"
    /\ op[u] = "get_or_create_session" /\ pc[u] = "session"
    /\ call[t].made /\ call[u].made
    /\ call[t].validation /\ call[t].ret # None
    /\ call[u].cred = "valid"
    /\ call[u].before = call[t].after

\* u got the session t cached, without a validation of its own
SharesValidation(t, u) ==
    /\ call[u].hit
    /\ ~call[u].validation
    /\ call[u].ret = call[t].ret

(***************************************************************************)
(* C26 (as stated). Single validation under contention: when threads call  *)
(* get_or_create_session() concurrently while the cache is empty or stale  *)
(* and validation succeeds, exactly one validation is performed and every  *)
(* other thread returns the session cached by the first.                   *)
(***************************************************************************)
C26_SingleValidation ==
    \A t \in Threads, u \in Threads :
        Contended(t, u) => SharesValidation(t, u)

(***************************************************************************)
(* C26 (amended). As above, for every other thread that reads the clock,   *)
(* once it has the lock, less than SESSION_CACHE_TTL after the first       *)
(* thread did; a thread that comes to the lock later than that validates   *)
(* again.                                                                  *)
(***************************************************************************)
C26_SingleValidationWithinTTL ==
    \A t \in Threads, u \in Threads :
        Contended(t, u) =>
            IF call[u].time - call[t].time < SESSION_CACHE_TTL
            THEN SharesValidation(t, u)
            ELSE /\ call[u].validation
                 /\ call[u].ret \notin {None, call[t].ret}

\* two overlapping calls, the second served from the first one's validation
C26_Witness ==
    \E t \in Threads, u \in Threads :
        /\ Contended(t, u)
        /\ call[u].time - call[t].time < SESSION_CACHE_TTL
        /\ call[u].before.cached = call[t].ret
        /\ call[u].ret = call[t].ret

(***************************************************************************)
(* C27: negative results are not cached.  A call of                        *)
(* get_or_create_session() that returns no session leaves no cache entry;  *)
(* a call that finds no cache entry is never answered from the cache,      *)
(* whatever the clock and the last validation time are: it looks at the    *)
(* credential file, validates it when it exists and returns a session      *)
(* when it is valid.  A login answered 200 leaves a valid file, so the     *)
(* authenticated request that follows it is not answered 401.              *)
(***************************************************************************)
\* thread t runs the body of get_or_create_session() in this step
GetsSession(t) == pc[t] = "locked" /\ pc'[t] \in {"session", "raised"}

RevalidatesWhenEmpty(t) ==
    (GetsSession(t) /\ cached_session = None) =>
        /\ ~call'[t].hit
        /\ FileExists(cred) => call'[t].validation
        /\ cred = "valid" =>
              /\ call'[t].ret # None
              /\ cached_session' = call'[t].ret
              /\ session_last_validated' = clock

LoginStoresCredentials(t) ==
    (pc[t] = "route" /\ op[t] = "login" /\ pc'[t] = "done"
        /\ resp'[t].status = 200) => cred' = "valid"

NegativeLeavesNoEntry(t) ==
    (call[t].made /\ call[t].ret = None) => call[t].after.cached = None

ServedAfterEmptyCache(t) ==
    (op[t] \in AuthRoutes /\ pc[t] = "done" /\ call[t].made
        /\ call[t].before.cached = None /\ call[t].cred = "valid") =>
        /\ resp[t].handler
        /\ resp[t].status # 401
        /\ resp[t].session = call[t].ret
        /\ call[t].ret # None

C27_NegativeNotCached ==
    /\ [](\A t \in RouteThreads :
             NegativeLeavesNoEntry(t) /\ ServedAfterEmptyCache(t))
    /\ [][\A t \in RouteThreads :
             RevalidatesWhenEmpty(t) /\ LoginStoresCredentials(t)]_vars

\* an authenticated request is served at the very clock reading at which
\* an earlier call lost the cache entry: the entry was last validated
\* exactly one TTL before, so the call that cleared it ran at this reading
C27_Witness ==
    \E t \in RouteThreads :
        /\ op[t] \in AuthRoutes /\ pc[t] = "done"
        /\ call[t].made
        /\ call[t].before.cached = None
        /\ call[t].before.last # 0
        /\ call[t].time = call[t].before.last + SESSION_CACHE_TTL
        /\ call[t].validation /\ call[t].ret # None
        /\ resp[t].status = 200

(***************************************************************************)
(* C28: login leaves the session cache untouched.  No step of the login    *)
(* route changes the cached session, its validation time or the lock; the  *)
(* entry a successful login found live stays the cache entry until its TTL *)
(* has expired, and an authenticated route that finds it is served with    *)
(* that same session object while the TTL lasts and validates anew after.  *)
(***************************************************************************)
LoginStep(t) == pc[t] = "route" /\ op[t] = "login" /\ pc'[t] = "done"

LoginLeavesCache(t) == LoginStep(t) => UNCHANGED cacheVars

KeptUntilExpiry ==
    (/\ login_found # None
     /\ validated.session = login_found
     /\ clock - validated.at < SESSION_CACHE_TTL) =>
        /\ cached_session = login_found
        /\ session_last_validated = validated.at

ServedFromLoginEntry(t) ==
    (/\ op[t] \in AuthRoutes /\ pc[t] = "done" /\ call[t].made
     /\ login_found # None
     /\ call[t].before.cached = login_found) =>
        IF call[t].time - call[t].before.last < SESSION_CACHE_TTL
        THEN /\ call[t].hit /\ ~call[t].validation
             /\ call[t].ret = login_found
             /\ resp[t].handler /\ resp[t].session = login_found
        ELSE /\ ~call[t].hit
             /\ call[t].ret # login_found

C28_LoginLeavesCache ==
    /\ [](KeptUntilExpiry /\ \A t \in RouteThreads : ServedFromLoginEntry(t))
    /\ [][\A t \in RouteThreads : LoginLeavesCache(t)]_vars

\* a route is served from the entry a successful login found live, some
\* time after that entry was validated
C28_Witness ==
    \E t \in RouteThreads :
        /\ op[t] \in AuthRoutes /\ pc[t] = "done"
        /\ call[t].made /\ call[t].hit
        /\ login_found # None
        /\ call[t].ret = login_found
        /\ call[t].time > call[t].before.last
        /\ resp[t].status = 200 /\ resp[t].session = login_found

(***************************************************************************)
(* C29: tool-level batch search correspondence.  Whenever                  *)
(* batch_search_tidal returns "success" for a list, the results it returns *)
(* hold one entry per item of the list it was given, and the i-th entry    *)
(* carries the query text of the i-th item, malformed items included.      *)
(***************************************************************************)
\* the tool returned {"status": "success", **data} for its list
BatchToolSucceeded ==
    /\ tc_call.tool = "batch_search_tidal"
    /\ tc_pc \in {"done", "idle"}
    /\ tc_result.status = "success"
    /\ bs_pc = "done" /\ bs_response.status = 200

C29_ToolCorrespondence ==
    BatchToolSucceeded =>
        /\ Len(bs_response.results) = Len(tc_queries)
        /\ \A i \in 1..Len(tc_queries) :
              /\ i <= Len(bs_response.results)
              /\ bs_response.results[i].query = QueryText(tc_queries[i])

(***************************************************************************)
(* C30: success implies a live child.  In every iteration of the polling   *)
(* loop the port is probed only after the liveness check of that iteration *)
(* found the child running, and only a probe sets flask_ready; so          *)
(* start_flask_app() has reported success only if no liveness check ever   *)
(* saw the child exited, and once a check has seen it exited no accepting  *)
(* port makes the start succeed.                                           *)
(***************************************************************************)
\* the probe is entered from the liveness check, with the child running
ProbeFollowsLiveCheck ==
    (sup_pc' = "probe" /\ sup_pc # "probe") =>
        /\ sup_pc = "alive"
        /\ child = "running"
        /\ checks_after_exit' = 0

\* flask_ready is set by the probe that found the port accepting
ReadyFollowsProbe ==
    (flask_ready' /\ ~flask_ready) =>
        /\ sup_pc = "probe"
        /\ accepted'
        /\ checks_after_exit = 0

SuccessSawLiveChild ==
    (flask_ready \/ sup_pc = "returned") =>
        /\ checks_after_exit = 0
        /\ ~returncode.set
        /\ sup_error.kind = "none"

ObservedDeadNeverSucceeds ==
    checks_after_exit # 0 =>
        /\ sup_pc \in {"raised_exit"}
        /\ ~flask_ready
        /\ sup_error.kind = "exit"

C30_SuccessImpliesLiveChild ==
    /\ [](SuccessSawLiveChild /\ ObservedDeadNeverSucceeds)
    /\ [][ProbeFollowsLiveCheck /\ ReadyFollowsProbe]_vars

\* the start succeeded on a port another process holds, the child having
\* exited after the liveness check of the accepting iteration
C30_Witness ==
    /\ sup_pc = "returned"
    /\ accepted
    /\ child = "exited"
    /\ exit_unaccepted
    /\ checks_after_exit = 0

====
